---- MODULE Spec2Model ----
(***************************************************************************)
(* kilo-openai-proxy: the OpenAI-compatible front door that drives the     *)
(* Gemini WebUI page (src/unnamed/part_002, the current server.js).        *)
(*                                                                         *)
(* Modelled: the single-flight gate of POST /v1/chat/completions (busy,    *)
(* watchdog, close/finish callbacks), submitPrompt, getBubbleState, and    *)
(* the two capture forms readAnswerInChunks / waitForFinalAnswer, against  *)
(* a page (the "Surface") whose reply bubbles change on their own.         *)
(*                                                                         *)
(* Texts are sequences of one-character strings (one element per UTF-16    *)
(* code unit).  The module is ASCII only, so a CJK character is written as *)
(* its code point name: "U6B63" is the single character U+6B63.            *)
(*                                                                         *)
(* Time is discrete: one tick is one poll interval of the capture loops    *)
(* (80 ms / 100 ms in the source).  A handler step that does not wait      *)
(* takes no time; the waits of the source are the only places where        *)
(* ticks pass for a handler.                                               *)
(***************************************************************************)
EXTENDS Integers, Sequences, FiniteSets, TLC

(***************************************************************************)
(* Characters and texts                                                    *)
(***************************************************************************)
UpperChars == <<"A","B","C","D","E","F","G","H","I","J","K","L","M",
                "N","O","P","Q","R","S","T","U","V","W","X","Y","Z">>
LowerChars == <<"a","b","c","d","e","f","g","h","i","j","k","l","m",
                "n","o","p","q","r","s","t","u","v","w","x","y","z">>
DigitChars == {"0","1","2","3","4","5","6","7","8","9"}

\* \w of a JavaScript regular expression without the u flag: [A-Za-z0-9_]
IsWordChar(c) ==
    \/ \E i \in 1..26 : c = UpperChars[i] \/ c = LowerChars[i]
    \/ c \in DigitChars
    \/ c = "_"

\* case folding done by the i flag
Lower(c) ==
    IF \E i \in 1..26 : c = UpperChars[i]
    THEN LowerChars[CHOOSE i \in 1..26 : c = UpperChars[i]]
    ELSE c

\* \s of a regular expression and the characters String.prototype.trim removes
WhiteChars == {" ", "\t", "\n", "\r", "U00A0"}
\* characters the regular expression dot does not match
LineTerminators == {"\n", "\r", "U2028", "U2029"}

\* the phrases of the source
P_GeminiIsTyping == <<"G","e","m","i","n","i"," ","i","s"," ","t","y","p","i","n","g">>
P_GeminiReplied  == <<"G","e","m","i","n","i"," ","r","e","p","l","i","e","d">>
P_ZhengZaiShuRu  == <<"U6B63","U5728","U8F93","U5165">>
P_ZhengZaiSiKao  == <<"U6B63","U5728","U601D","U8003">>
P_SiKaoZhong     == <<"U601D","U8003","U4E2D">>
P_ShengChengZhong == <<"U751F","U6210","U4E2D">>
P_JiaZaiZhong    == <<"U52A0","U8F7D","U4E2D">>

RECURSIVE TrimLeft(_)
TrimLeft(s) ==
    IF s = <<>> THEN <<>>
    ELSE IF Head(s) \in WhiteChars THEN TrimLeft(Tail(s)) ELSE s

RECURSIVE TrimRight(_)
TrimRight(s) ==
    IF s = <<>> THEN <<>>
    ELSE IF s[Len(s)] \in WhiteChars THEN TrimRight(SubSeq(s, 1, Len(s) - 1)) ELSE s

\* String.prototype.trim
Trim(s) == TrimRight(TrimLeft(s))

\* String.prototype.slice(n) for 0 <= n
SliceFrom(s, n) == IF n >= Len(s) THEN <<>> ELSE SubSeq(s, n + 1, Len(s))

IsPrefix(p, s) == Len(p) <= Len(s) /\ SubSeq(s, 1, Len(p)) = p

\* the phrase p stands in s at position i, compared as the i flag compares
PhraseAtFold(s, i, p) ==
    /\ i >= 1
    /\ i + Len(p) - 1 <= Len(s)
    /\ \A j \in 1..Len(p) : Lower(s[i + j - 1]) = Lower(p[j])

\* the phrase p stands in s at position i, compared exactly
PhraseAt(s, i, p) ==
    /\ i >= 1
    /\ i + Len(p) - 1 <= Len(s)
    /\ \A j \in 1..Len(p) : s[i + j - 1] = p[j]

\* String.prototype.includes
Includes(s, p) == \E i \in 1..(Len(s) + 1) : PhraseAt(s, i, p)

\* \b between s[k] and s[k+1], for k in 0..Len(s)
WordAt(s, k) == k >= 1 /\ k <= Len(s) /\ IsWordChar(s[k])
BoundaryAt(s, k) == WordAt(s, k) # WordAt(s, k + 1)

\* length matched by \b p \b at position i, 0 when it does not match
LiteralMatch(s, i, p) ==
    IF BoundaryAt(s, i - 1) /\ PhraseAtFold(s, i, p) /\ BoundaryAt(s, i + Len(p) - 1)
    THEN Len(p) ELSE 0

\* length matched by \b p .*? \b at position i, 0 when it does not match
LazyMatch(s, i, p) ==
    IF BoundaryAt(s, i - 1) /\ PhraseAtFold(s, i, p)
    THEN LET e == i + Len(p) - 1
             cands == { n \in 0..(Len(s) - e) :
                          /\ \A j \in 1..n : s[e + j] \notin LineTerminators
                          /\ BoundaryAt(s, e + n) }
         IN  IF cands = {} THEN 0
             ELSE Len(p) + (CHOOSE n \in cands : \A m \in cands : n <= m)
    ELSE 0

\* the first alternative that matches at i decides the match
RECURSIVE FirstLiteral(_, _, _, _)
FirstLiteral(s, i, lits, k) ==
    IF k > Len(lits) THEN 0
    ELSE IF LiteralMatch(s, i, lits[k]) > 0 THEN LiteralMatch(s, i, lits[k])
    ELSE FirstLiteral(s, i, lits, k + 1)

RECURSIVE FirstLazy(_, _, _, _)
FirstLazy(s, i, lazies, k) ==
    IF k > Len(lazies) THEN 0
    ELSE IF LazyMatch(s, i, lazies[k]) > 0 THEN LazyMatch(s, i, lazies[k])
    ELSE FirstLazy(s, i, lazies, k + 1)

MatchAt(s, i, lits, lazies) ==
    IF FirstLiteral(s, i, lits, 1) > 0 THEN FirstLiteral(s, i, lits, 1)
    ELSE FirstLazy(s, i, lazies, 1)

\* s.replace(/\b(lits|lazies.*?)\b/gi, '')
RECURSIVE StripFrom(_, _, _, _)
StripFrom(s, i, lits, lazies) ==
    IF i > Len(s) THEN <<>>
    ELSE LET m == MatchAt(s, i, lits, lazies)
         IN  IF m > 0 THEN StripFrom(s, i + m, lits, lazies)
             ELSE <<s[i]>> \o StripFrom(s, i + 1, lits, lazies)

\* readAnswerInChunks: raw.replace(/\b(Gemini is typing|Gemini replied|U6B63U5728U8F93U5165.*?)\b/gi, '').trim()
CleanStreamOf(raw) ==
    Trim(StripFrom(raw, 1, <<P_GeminiIsTyping, P_GeminiReplied>>, <<P_ZhengZaiShuRu>>))

\* waitForFinalAnswer: text.replace(/\b(Gemini is typing|...|U52A0U8F7DU4E2D)\b/gi, '').trim()
CleanFinalOf(text) ==
    Trim(StripFrom(text, 1,
                   <<P_GeminiIsTyping, P_GeminiReplied, P_ZhengZaiShuRu,
                     P_SiKaoZhong, P_ShengChengZhong, P_JiaZaiZhong>>, <<>>))

Placeholders == {P_GeminiIsTyping, P_GeminiReplied, P_ZhengZaiShuRu, P_ZhengZaiSiKao,
                 P_SiKaoZhong, P_ShengChengZhong, P_JiaZaiZhong}

\* /^[.U2026\s]+$/.test(s)
OnlyEllipsisOrSpace(s) ==
    s # <<>> /\ \A i \in 1..Len(s) : s[i] \in ({".", "U2026"} \cup WhiteChars)

isPlaceholderTextOf(t) ==
    IF t = <<>> THEN TRUE
    ELSE LET s == Trim(t)
         IN  OnlyEllipsisOrSpace(s) \/ \E p \in Placeholders : Includes(s, p)


(***************************************************************************)
(* Bounds and scaled program constants (in ticks)                          *)
(***************************************************************************)
\* CFG.MAX_ANSWER_MS and CFG.STABLE_MS, in ticks
MAX_ANSWER_TICKS == 3
STABLE_TICKS == 2
\* the watchdog margin of 2000 ms, the waits of 15000, 4000 and 2000 ms
WATCHDOG_MARGIN_TICKS == 1
IDLE_TICKS == 1
START_TICKS == 2
START2_TICKS == 1
\* the short-reply threshold of waitForFinalAnswer
SHORT_LEN == 5
\* reply bubbles the page holds at most
MaxSegs == 2

WATCHDOG_TICKS == MAX_ANSWER_TICKS + WATCHDOG_MARGIN_TICKS

\* the requests of a run, numbered in the order they arrive
Reqs == {1, 2, 3}

\* texts the page may render in a reply bubble
T_Empty  == <<>>
T_Hel    == <<"H","e","l">>
T_Hello  == <<"H","e","l","l","o">>
T_Jelly  == <<"J","e","l","l","y","!">>
T_Dots   == <<".",".",".">>
T_Old    == <<"o","l","d">>
T_OK     == <<"O","K">>
T_OKDot  == <<"O","K",".">>
GateTexts    == {T_Hel}
CaptureTexts == {T_Empty, T_Hel, T_Hello, T_Jelly, T_Dots, P_ZhengZaiSiKao, P_GeminiIsTyping}
DotTexts     == {T_OK, T_OKDot}

\* every text a read of the page can return, and the texts left of it by the
\* two regular expressions: the three functions below hold, for each of them,
\* the value the operators above compute
RawTexts == { Trim(t) : t \in GateTexts \cup CaptureTexts \cup DotTexts \cup {T_Old} }
CleanedTexts == RawTexts \cup { CleanStreamOf(t) : t \in RawTexts }
                         \cup { CleanFinalOf(t) : t \in RawTexts }
CleanStreamTable == [t \in RawTexts |-> CleanStreamOf(t)]
CleanFinalTable == [t \in RawTexts |-> CleanFinalOf(t)]
PlaceholderTable == [t \in CleanedTexts |-> isPlaceholderTextOf(t)]
CleanStream(raw) == CleanStreamTable[raw]
CleanFinal(text) == CleanFinalTable[text]
isPlaceholderText(t) == PlaceholderTable[t]

\* a reply bubble matches ANSWER_ROOT (the first of BUBBLE_ROOT_SELECTORS) or
\* only one of the other three selectors
Kinds == {"root", "other"}

VARIABLES
    busy,        \* let busy
    pc,          \* position of each request's handler
    stream,      \* wantStream(body) of each request
    wd,          \* each request's watchdog timer: none, armed, cleared, fired
    wdLeft,      \* ticks until an armed watchdog fires
    releases,    \* how often the close/finish callbacks of a request ran
    baseline,    \* const baseline = await submitPrompt(prompt)
    last,        \* last (readAnswerInChunks) / lastText (waitForFinalAnswer)
    full,        \* full of the stream branch: the deltas received so far
    everHadText, \* everHadText of waitForFinalAnswer
    elapsed,     \* Date.now() - t0 of the wait the handler is in
    sinceChange, \* Date.now() - lastChangeAt, capped at STABLE_TICKS
    res,         \* the response of each request
    segs,        \* the reply bubbles of the page, in document order
    input,       \* whose prompt the input box holds: {} when it is empty
    pending,     \* prompts the page accepted and has not answered yet
    page,        \* what the page of this run may do: the texts it renders,
                 \* the kinds of reply bubble it makes and their visibility
    san,         \* the sanitizer call of this run: the body, the options and
                 \* what maybeSanitizeKiloBody made of them
    ops,         \* what the submitPrompt of each request has done to the page
                 \* so far, in order
    box          \* the input box looked at from setInputFast: its content, the
                 \* prompt expected in it and what the checks of it returned

vars == <<busy, pc, stream, wd, wdLeft, releases, baseline, last, full, everHadText,
          elapsed, sinceChange, res, segs, input, pending, page, san, ops, box>>

reqVars == <<stream, baseline, last, full, everHadText, elapsed, sinceChange>>
surfaceVars == <<segs, input, pending>>

\* no request body has gone through the sanitizer
NoCall == [at |-> "none"]

\* no run follows the content of the input box
NoBox == [at |-> "none"]

NoResponse == [status |-> 0, message |-> "", content |-> <<>>, headersSent |-> FALSE,
               ended |-> FALSE, doneMark |-> FALSE, finished |-> FALSE, closed |-> FALSE]

(***************************************************************************)
(* Reading the page                                                        *)
(***************************************************************************)
IsRoot(b) == b.kind = "root"
IsOther(b) == b.kind = "other"
IsVisible(b) == b.vis

\* document.querySelectorAll(ANSWER_ROOT)
AnswerRoots == SelectSeq(segs, IsRoot)

\* page.$$eval(ANSWER_ROOT, n => n.length)
beforeCount == Len(AnswerRoots)

\* the bubbles of getBubbleState: every selector's matches in selector order,
\* without duplicates, the visible ones only
BubbleList == SelectSeq(AnswerRoots \o SelectSeq(segs, IsOther), IsVisible)

getBubbleState(base) ==
    IF Len(BubbleList) <= base
    THEN [hasBubble |-> FALSE, text |-> <<>>, spinning |-> FALSE, turn |-> 0]
    ELSE LET b == BubbleList[Len(BubbleList)]
         IN  [hasBubble |-> TRUE, text |-> Trim(b.text), spinning |-> b.spin, turn |-> b.turn]

grabAnswerText(base) == getBubbleState(base).text

\* the predicate submitPrompt waits for after a commit
StartedPred(count) ==
    \/ Len(AnswerRoots) > count
    \/ Len(AnswerRoots) > 0 /\ Trim(AnswerRoots[Len(AnswerRoots)].text) # <<>>


(***************************************************************************)
(* Initial states                                                          *)
(***************************************************************************)
\* the page before the first request: no reply bubble, or one left by an
\* earlier conversation
OldSegs ==
    {<<>>} \cup { <<[kind |-> k, vis |-> v, text |-> T_Old, spin |-> FALSE, turn |-> 0]>> :
                  k \in Kinds, v \in BOOLEAN }

InitWith(reqSet, pageOf, olds) ==
    /\ busy = FALSE
    /\ pc = [r \in Reqs |-> IF r \in reqSet THEN "new" ELSE "absent"]
    /\ stream = [r \in Reqs |-> TRUE]
    /\ wd = [r \in Reqs |-> "none"]
    /\ wdLeft = [r \in Reqs |-> 0]
    /\ releases = [r \in Reqs |-> 0]
    /\ baseline = [r \in Reqs |-> 0]
    /\ last = [r \in Reqs |-> <<>>]
    /\ full = [r \in Reqs |-> <<>>]
    /\ everHadText = [r \in Reqs |-> FALSE]
    /\ elapsed = [r \in Reqs |-> 0]
    /\ sinceChange = [r \in Reqs |-> 0]
    /\ res = [r \in Reqs |-> NoResponse]
    /\ segs \in olds
    /\ input = {}
    /\ pending = {}
    /\ page = pageOf
    /\ san = NoCall
    /\ ops = [r \in Reqs |-> <<>>]
    /\ box = NoBox

\* a page that renders one text in well-formed bubbles
GatePage == [texts |-> GateTexts, kinds |-> {"root"}, vis |-> {TRUE}, spins |-> {FALSE}]
\* a page that renders many texts in bubbles of every kind
CapturePage == [texts |-> CaptureTexts, kinds |-> Kinds, vis |-> BOOLEAN, spins |-> BOOLEAN]

\* a page that never answers
QuietPage == [texts |-> {}, kinds |-> {}, vis |-> {}, spins |-> {}]

Init == InitWith({1, 2}, GatePage, {<<>>})

(***************************************************************************)
(* POST /v1/chat/completions: admission                                    *)
(***************************************************************************)
\* res.status(code).json({ error: { message } })
JsonError(r, code, msg) ==
    [res[r] EXCEPT !.status = code, !.message = msg, !.headersSent = TRUE, !.ended = TRUE]

\* a variant of GateClosed: the gate is never seen closed
GateNeverClosed == FALSE

\* if (busy) return res.status(429)...
GateClosed == busy

\* a variant of Arrive: the watchdog and the callbacks are set up before
\* the busy check
ArriveArmsFirst(r) ==
    /\ pc[r] = "new"
    /\ \A q \in Reqs : q < r => pc[q] # "new"
    /\ wd' = [wd EXCEPT ![r] = "armed"]
    /\ wdLeft' = [wdLeft EXCEPT ![r] = WATCHDOG_TICKS]
    /\ IF GateClosed
       THEN /\ pc' = [pc EXCEPT ![r] = "rejected"]
            /\ res' = [res EXCEPT ![r] = JsonError(r, 429, "busy")]
            /\ UNCHANGED <<busy, stream>>
       ELSE /\ busy' = TRUE
            /\ \E st \in BOOLEAN, emptyPrompt \in BOOLEAN :
                 /\ stream' = [stream EXCEPT ![r] = st]
                 /\ IF emptyPrompt
                    THEN /\ pc' = [pc EXCEPT ![r] = "done"]
                         /\ res' = [res EXCEPT ![r] = JsonError(r, 400, "empty prompt")]
                    ELSE /\ pc' = [pc EXCEPT ![r] = "ensure"]
                         /\ UNCHANGED res
    /\ UNCHANGED <<releases, baseline, last, full, everHadText, elapsed, sinceChange,
                   surfaceVars, page, san, ops, box>>

\* the handler up to its first await: the busy check, the watchdog, the
\* close/finish callbacks, the sanitizer, wantStream, toPrompt
Arrive(r) ==
    /\ pc[r] = "new"
    /\ \A q \in Reqs : q < r => pc[q] # "new"
    /\ IF GateClosed
       THEN /\ pc' = [pc EXCEPT ![r] = "rejected"]
            /\ res' = [res EXCEPT ![r] = JsonError(r, 429, "busy")]
            /\ UNCHANGED <<busy, wd, wdLeft, stream>>
       ELSE /\ busy' = TRUE
            /\ wd' = [wd EXCEPT ![r] = "armed"]
            /\ wdLeft' = [wdLeft EXCEPT ![r] = WATCHDOG_TICKS]
            /\ \E st \in BOOLEAN, emptyPrompt \in BOOLEAN :
                 /\ stream' = [stream EXCEPT ![r] = st]
                 /\ IF emptyPrompt
                    THEN /\ pc' = [pc EXCEPT ![r] = "done"]
                         /\ res' = [res EXCEPT ![r] = JsonError(r, 400, "empty prompt")]
                    ELSE /\ pc' = [pc EXCEPT ![r] = "ensure"]
                         /\ UNCHANGED res
    /\ UNCHANGED <<releases, baseline, last, full, everHadText, elapsed, sinceChange,
                   surfaceVars, page, san, ops, box>>

\* await ensureBrowser(): the context and the page exist since start-up
EnsureBrowser(r) ==
    /\ pc[r] = "ensure"
    /\ pc' = [pc EXCEPT ![r] = "idle"]
    /\ elapsed' = [elapsed EXCEPT ![r] = 0]
    /\ UNCHANGED <<busy, stream, wd, wdLeft, releases, baseline, last, full, everHadText,
                   sinceChange, res, surfaceVars, page, san, ops, box>>

\* a variant of ReasonOf: the message of the error is sent as it is
ReasonOfRaw(msg) == msg

\* the catch block: the reason sent for an error message
ReasonOf(msg) ==
    IF msg = "submit_not_started" THEN "submit_not_started"
    ELSE IF msg = "no_text_captured" THEN "no_text_captured"
    ELSE "proxy_error"

\* the catch block: a 502 unless the headers were sent already
Caught(r, msg) ==
    IF res[r].headersSent THEN res[r] ELSE JsonError(r, 502, ReasonOf(msg))

(***************************************************************************)
(* submitPrompt                                                            *)
(***************************************************************************)
\* await waitUntilIdle(15000): one pass of its loop; busyBtn is what
\* page.$(BUSY_BUTTON) finds, the Stop button shown while the page generates
WaitUntilIdle(r) ==
    /\ pc[r] = "idle"
    /\ \E busyBtn \in BOOLEAN :
         IF elapsed[r] >= IDLE_TICKS \/ ~busyBtn
         THEN pc' = [pc EXCEPT ![r] = "pick"]
         ELSE pc' = [pc EXCEPT ![r] = "idle_sleep"]
    /\ UNCHANGED <<busy, stream, wd, wdLeft, releases, baseline, last, full, everHadText,
                   elapsed, sinceChange, res, surfaceVars, page, san, ops, box>>

\* pickActiveInput, then beforeCount = number of ANSWER_ROOT nodes
ReadBaseline(r) ==
    /\ pc[r] = "pick"
    /\ \E found \in BOOLEAN :
         IF found
         THEN /\ baseline' = [baseline EXCEPT ![r] = beforeCount]
              /\ pc' = [pc EXCEPT ![r] = "input"]
              /\ UNCHANGED res
         ELSE /\ pc' = [pc EXCEPT ![r] = "done"]
              /\ res' = [res EXCEPT ![r] = Caught(r, "input_not_found")]
              /\ UNCHANGED baseline
    /\ UNCHANGED <<busy, stream, wd, wdLeft, releases, last, full, everHadText,
                   elapsed, sinceChange, surfaceVars, page, san, ops, box>>

\* setInputFast: the input is cleared, then holds the prompt or not; the
\* write counts as done when the input holds text or the send button is ready
SetInputFast(r) ==
    /\ pc[r] = "input"
    /\ \E filled \in BOOLEAN, ready \in BOOLEAN :
         /\ input' = IF filled THEN {r} ELSE {}
         /\ IF filled \/ ready
            THEN /\ pc' = [pc EXCEPT ![r] = "commit"]
                 /\ UNCHANGED res
            ELSE /\ pc' = [pc EXCEPT ![r] = "done"]
                 /\ res' = [res EXCEPT ![r] = Caught(r, "paste_failed")]
    /\ UNCHANGED <<busy, stream, wd, wdLeft, releases, baseline, last, full, everHadText,
                   elapsed, sinceChange, segs, pending, page, san, ops, box>>

\* Enter / click on the send button: the page takes the prompt of the input
\* box or ignores the action
PageCommit ==
    \/ UNCHANGED <<input, pending>>
    \/ /\ input # {}
       /\ pending' = pending \cup input
       /\ input' = {}

Commit(r) ==
    /\ pc[r] = "commit"
    /\ PageCommit
    /\ pc' = [pc EXCEPT ![r] = "started"]
    /\ elapsed' = [elapsed EXCEPT ![r] = 0]
    /\ UNCHANGED <<busy, stream, wd, wdLeft, releases, baseline, last, full, everHadText,
                   sinceChange, res, segs, page, san, ops, box>>

\* submitPrompt returns beforeCount; the handler starts the capture: sseHead
\* and the first call of the generator, or waitForFinalAnswer, up to the
\* first read of the page
Started(r) ==
    /\ pc[r] \in {"started", "started2"}
    /\ StartedPred(baseline[r])
    /\ pc' = [pc EXCEPT ![r] = "poll"]
    /\ elapsed' = [elapsed EXCEPT ![r] = 0]
    /\ sinceChange' = [sinceChange EXCEPT ![r] = 0]
    /\ last' = [last EXCEPT ![r] = <<>>]
    /\ full' = [full EXCEPT ![r] = <<>>]
    /\ everHadText' = [everHadText EXCEPT ![r] = FALSE]
    /\ res' = [res EXCEPT ![r] = IF stream[r]
                                 THEN [@ EXCEPT !.status = 200, !.headersSent = TRUE]
                                 ELSE @]
    /\ UNCHANGED <<busy, stream, wd, wdLeft, releases, baseline, surfaceVars, page, san, ops, box>>

\* no evidence within 4000 ms: commit once more
RetryCommit(r) ==
    /\ pc[r] = "started"
    /\ ~StartedPred(baseline[r])
    /\ elapsed[r] >= START_TICKS
    /\ PageCommit
    /\ pc' = [pc EXCEPT ![r] = "started2"]
    /\ elapsed' = [elapsed EXCEPT ![r] = 0]
    /\ UNCHANGED <<busy, stream, wd, wdLeft, releases, baseline, last, full, everHadText,
                   sinceChange, res, segs, page, san, ops, box>>

\* a variant of NotStarted: the commit is made again and again
NotStartedRetries(r) ==
    /\ pc[r] = "started2"
    /\ ~StartedPred(baseline[r])
    /\ elapsed[r] >= START2_TICKS
    /\ PageCommit
    /\ ops' = [ops EXCEPT ![r] = Append(@, "click")]
    /\ elapsed' = [elapsed EXCEPT ![r] = 0]
    /\ UNCHANGED <<busy, pc, stream, wd, wdLeft, releases, baseline, last, full, everHadText,
                   sinceChange, res, segs, page, san, box>>

\* no evidence within 2000 ms more: throw submit_not_started
NotStarted(r) ==
    /\ pc[r] = "started2"
    /\ ~StartedPred(baseline[r])
    /\ elapsed[r] >= START2_TICKS
    /\ pc' = [pc EXCEPT ![r] = "done"]
    /\ res' = [res EXCEPT ![r] = Caught(r, "submit_not_started")]
    /\ UNCHANGED <<busy, stream, wd, wdLeft, releases, baseline, last, full, everHadText,
                   elapsed, sinceChange, surfaceVars, page, san, ops, box>>


(***************************************************************************)
(* Capture: readAnswerInChunks and waitForFinalAnswer                      *)
(***************************************************************************)
\* res.write(sseChunk(id, delta))
Written(r, delta) == [res[r] EXCEPT !.content = @ \o delta]

\* res.json({ ..., message: { content } })
JsonOk(r, text) ==
    [res[r] EXCEPT !.status = 200, !.content = text, !.headersSent = TRUE, !.ended = TRUE]

\* one pass of the loop of readAnswerInChunks: the delta it yields for the
\* text raw read from the page, <<>> when it yields none
StreamDelta(lastV, raw) ==
    IF raw = <<>> THEN <<>>
    ELSE LET cur == CleanStream(raw)
         IN  IF cur # <<>> /\ ~isPlaceholderText(cur) /\ cur # lastV
             THEN SliceFrom(cur, Len(lastV))
             ELSE <<>>

\* a variant of StreamLast: last follows every accepted text, yielded or not
StreamLastAlways(lastV, raw) ==
    IF raw = <<>> THEN lastV
    ELSE LET cur == CleanStream(raw)
         IN  IF cur # <<>> /\ ~isPlaceholderText(cur) /\ cur # lastV THEN cur ELSE lastV

\* the value of last after that pass
StreamLast(lastV, raw) ==
    IF StreamDelta(lastV, raw) # <<>> THEN CleanStream(raw) ELSE lastV

\* the delta of the read made after the loop
FinalDelta(lastV, final) ==
    LET finalClean == CleanStream(final)
    IN  IF finalClean # <<>> /\ Len(finalClean) > Len(lastV)
        THEN SliceFrom(finalClean, Len(lastV))
        ELSE <<>>

\* a variant of StreamPoll: the loop goes on whatever time has passed
StreamPollUnbounded(r) ==
    /\ pc[r] = "poll"
    /\ stream[r]
    /\ LET raw     == grabAnswerText(baseline[r])
           delta   == StreamDelta(last[r], raw)
           newLast == StreamLast(last[r], raw)
           since   == IF delta # <<>> THEN 0 ELSE sinceChange[r]
       IN  /\ last' = [last EXCEPT ![r] = newLast]
           /\ full' = [full EXCEPT ![r] = @ \o delta]
           /\ sinceChange' = [sinceChange EXCEPT ![r] = since]
           /\ res' = [res EXCEPT ![r] = Written(r, delta)]
           /\ pc' = [pc EXCEPT ![r] =
                       IF raw # <<>> /\ newLast # <<>> /\ since >= STABLE_TICKS
                       THEN "final" ELSE "sleep"]
    /\ UNCHANGED <<busy, stream, wd, wdLeft, releases, baseline, everHadText, elapsed,
                   surfaceVars, page, san, ops, box>>

\* one pass of the while loop of readAnswerInChunks, with the consumer's
\* full += delta; res.write(...)
StreamPoll(r) ==
    /\ pc[r] = "poll"
    /\ stream[r]
    /\ elapsed[r] < MAX_ANSWER_TICKS
    /\ LET raw     == grabAnswerText(baseline[r])
           delta   == StreamDelta(last[r], raw)
           newLast == StreamLast(last[r], raw)
           since   == IF delta # <<>> THEN 0 ELSE sinceChange[r]
       IN  /\ last' = [last EXCEPT ![r] = newLast]
           /\ full' = [full EXCEPT ![r] = @ \o delta]
           /\ sinceChange' = [sinceChange EXCEPT ![r] = since]
           /\ res' = [res EXCEPT ![r] = Written(r, delta)]
           /\ pc' = [pc EXCEPT ![r] =
                       IF raw # <<>> /\ newLast # <<>> /\ since >= STABLE_TICKS
                       THEN "final" ELSE "sleep"]
    /\ UNCHANGED <<busy, stream, wd, wdLeft, releases, baseline, everHadText, elapsed,
                   surfaceVars, page, san, ops, box>>

\* a variant of StopContent: the closing event carries the whole text again
StopRepeatsFull(r) == full[r]

\* the content carried by sseStop(id): its delta is empty
StopContent(r) == <<>>

\* after the loop: the final read, the stop chunk, [DONE], res.end()
StreamFinal(r) ==
    /\ stream[r]
    /\ pc[r] = "final" \/ (pc[r] = "poll" /\ elapsed[r] >= MAX_ANSWER_TICKS)
    /\ LET delta == FinalDelta(last[r], grabAnswerText(baseline[r]))
       IN  /\ full' = [full EXCEPT ![r] = @ \o delta]
           /\ res' = [res EXCEPT ![r] =
                        [Written(r, delta \o StopContent(r))
                            EXCEPT !.doneMark = TRUE, !.ended = TRUE]]
    /\ pc' = [pc EXCEPT ![r] = "done"]
    /\ sinceChange' = [sinceChange EXCEPT ![r] = 0]
    /\ UNCHANGED <<busy, stream, wd, wdLeft, releases, baseline, last, everHadText,
                   elapsed, surfaceVars, page, san, ops, box>>

\* one pass of the while loop of waitForFinalAnswer
FinalPoll(r) ==
    /\ pc[r] = "poll"
    /\ ~stream[r]
    /\ elapsed[r] < MAX_ANSWER_TICKS
    /\ LET st      == getBubbleState(baseline[r])
           clean   == CleanFinal(st.text)
           changed == clean # <<>> /\ clean # last[r]
           newLast == IF changed THEN clean ELSE last[r]
           ever    == everHadText[r] \/ changed
           since   == IF changed THEN 0 ELSE sinceChange[r]
           return  == \/ changed /\ Len(newLast) <= SHORT_LEN /\ ~st.spinning
                      \/ ever /\ ~st.spinning /\ since >= STABLE_TICKS
       IN  /\ last' = [last EXCEPT ![r] = newLast]
           /\ everHadText' = [everHadText EXCEPT ![r] = ever]
           /\ IF return
              THEN /\ pc' = [pc EXCEPT ![r] = "done"]
                   /\ res' = [res EXCEPT ![r] = JsonOk(r, newLast)]
                   /\ sinceChange' = [sinceChange EXCEPT ![r] = 0]
              ELSE /\ pc' = [pc EXCEPT ![r] = "sleep"]
                   /\ sinceChange' = [sinceChange EXCEPT ![r] = since]
                   /\ UNCHANGED res
    /\ UNCHANGED <<busy, stream, wd, wdLeft, releases, baseline, full, elapsed,
                   surfaceVars, page, san, ops, box>>

\* a variant of AfterLoop: the timeout always throws
AfterLoopThrows(r) == Caught(r, "no_text_captured")

\* after the loop of waitForFinalAnswer:
\* if (!everHadText) throw new Error('no_text_captured'); return lastText
AfterLoop(r) ==
    IF everHadText[r] THEN JsonOk(r, last[r]) ELSE Caught(r, "no_text_captured")

\* the loop of waitForFinalAnswer ran out of time
FinalTimeout(r) ==
    /\ pc[r] = "poll"
    /\ ~stream[r]
    /\ elapsed[r] >= MAX_ANSWER_TICKS
    /\ pc' = [pc EXCEPT ![r] = "done"]
    /\ res' = [res EXCEPT ![r] = AfterLoop(r)]
    /\ sinceChange' = [sinceChange EXCEPT ![r] = 0]
    /\ UNCHANGED <<busy, stream, wd, wdLeft, releases, baseline, last, full, everHadText,
                   elapsed, surfaceVars, page, san, ops, box>>

\* a call into the page (page.$, page.evaluate, the keyboard) that never
\* settles: the handler stays at its await
Stall(r) ==
    /\ pc[r] \in {"idle", "pick", "input", "commit", "poll", "final"}
    /\ pc' = [pc EXCEPT ![r] = "stuck"]
    /\ UNCHANGED <<busy, wd, wdLeft, releases, reqVars, res, surfaceVars, page, san, ops, box>>

(***************************************************************************)
(* The release callbacks and the watchdog                                  *)
(***************************************************************************)
\* a variant of Cleared: the watchdog is left armed
NotCleared(r) == wd

\* clearTimeout(watchdog)
Cleared(r) == [wd EXCEPT ![r] = IF @ = "armed" THEN "cleared" ELSE @]

\* a variant of Finish: the callbacks clear the watchdog and leave busy alone
FinishKeepsBusy(r) ==
    /\ wd[r] # "none"
    /\ res[r].ended /\ ~res[r].finished /\ ~res[r].closed
    /\ res' = [res EXCEPT ![r] = [@ EXCEPT !.finished = TRUE, !.closed = TRUE]]
    /\ wd' = Cleared(r)
    /\ wdLeft' = [wdLeft EXCEPT ![r] = 0]
    /\ releases' = [releases EXCEPT ![r] = @ + 2]
    /\ UNCHANGED <<busy, pc, reqVars, surfaceVars, page, san, ops, box>>

\* res.end() took effect: 'finish' is emitted and, on the next tick of the
\* event loop, 'close'; both callbacks run
Finish(r) ==
    /\ wd[r] # "none"
    /\ res[r].ended /\ ~res[r].finished /\ ~res[r].closed
    /\ res' = [res EXCEPT ![r] = [@ EXCEPT !.finished = TRUE, !.closed = TRUE]]
    /\ wd' = Cleared(r)
    /\ wdLeft' = [wdLeft EXCEPT ![r] = 0]
    /\ busy' = FALSE
    /\ releases' = [releases EXCEPT ![r] = @ + 2]
    /\ UNCHANGED <<pc, reqVars, surfaceVars, page, san, ops, box>>

\* the client goes away before the response has finished: 'close'
ClientDisconnect(r) ==
    /\ wd[r] # "none"
    /\ ~res[r].finished /\ ~res[r].closed
    /\ res' = [res EXCEPT ![r] = [@ EXCEPT !.closed = TRUE]]
    /\ wd' = Cleared(r)
    /\ wdLeft' = [wdLeft EXCEPT ![r] = 0]
    /\ busy' = FALSE
    /\ releases' = [releases EXCEPT ![r] = @ + 1]
    /\ UNCHANGED <<pc, reqVars, surfaceVars, page, san, ops, box>>

\* a variant of WatchdogFire: the timer fires and leaves busy alone
WatchdogKeepsBusy(r) ==
    /\ wd[r] = "armed"
    /\ wdLeft[r] = 0
    /\ wd' = [wd EXCEPT ![r] = "fired"]
    /\ UNCHANGED <<busy, pc, wdLeft, releases, reqVars, res, surfaceVars, page, san, ops, box>>

\* setTimeout(() => { busy = false }, CFG.MAX_ANSWER_MS + 2000)
WatchdogFire(r) ==
    /\ wd[r] = "armed"
    /\ wdLeft[r] = 0
    /\ wd' = [wd EXCEPT ![r] = "fired"]
    /\ busy' = FALSE
    /\ UNCHANGED <<pc, wdLeft, releases, reqVars, res, surfaceVars, page, san, ops, box>>

(***************************************************************************)
(* The page                                                                *)
(***************************************************************************)
\* the page starts the reply to a prompt it accepted
SurfaceNewSegment ==
    /\ Len(segs) < MaxSegs
    /\ \E r \in pending, k \in page.kinds, v \in page.vis, sp \in page.spins :
         /\ segs' = Append(segs, [kind |-> k, vis |-> v, text |-> <<>>,
                                  spin |-> sp, turn |-> r])
         /\ pending' = pending \ {r}
    /\ UNCHANGED <<busy, pc, wd, wdLeft, releases, reqVars, res, input, page, san, ops, box>>

\* the page renders the newest reply anew
SurfaceRender ==
    /\ segs # <<>>
    /\ segs[Len(segs)].turn # 0
    /\ \E t \in page.texts, sp \in page.spins :
         /\ segs' = [segs EXCEPT ![Len(segs)] = [@ EXCEPT !.text = t, !.spin = sp]]
         /\ segs' # segs
    /\ UNCHANGED <<busy, pc, wd, wdLeft, releases, reqVars, res, input, pending, page, san, ops, box>>

(***************************************************************************)
(* Time                                                                    *)
(***************************************************************************)
\* a step of request r that happens before time passes
Urgent(r) ==
    \/ pc[r] \in {"ensure", "idle", "pick", "input", "commit", "poll", "final"}
    \/ pc[r] = "started" /\ (StartedPred(baseline[r]) \/ elapsed[r] >= START_TICKS)
    \/ pc[r] = "started2" /\ (StartedPred(baseline[r]) \/ elapsed[r] >= START2_TICKS)
    \/ wd[r] # "none" /\ res[r].ended /\ ~res[r].finished /\ ~res[r].closed
    \/ wd[r] = "armed" /\ wdLeft[r] = 0

Waiting(r) == pc[r] \in {"idle_sleep", "started", "started2", "sleep"}

Tick ==
    /\ \A r \in Reqs : ~Urgent(r)
    /\ wdLeft' = [r \in Reqs |-> IF wd[r] = "armed" THEN wdLeft[r] - 1 ELSE wdLeft[r]]
    /\ elapsed' = [r \in Reqs |-> IF Waiting(r) THEN elapsed[r] + 1 ELSE elapsed[r]]
    /\ sinceChange' = [r \in Reqs |->
                         IF pc[r] = "sleep" /\ sinceChange[r] < STABLE_TICKS
                         THEN sinceChange[r] + 1 ELSE sinceChange[r]]
    /\ pc' = [r \in Reqs |-> IF pc[r] = "sleep" THEN "poll"
                             ELSE IF pc[r] = "idle_sleep" THEN "idle"
                             ELSE pc[r]]
    /\ UNCHANGED <<busy, stream, wd, releases, baseline, last, full, everHadText, res,
                   surfaceVars, page, san, ops, box>>

(***************************************************************************)
(* Specifications                                                          *)
(***************************************************************************)
HandlerStep(r) ==
    \/ EnsureBrowser(r)
    \/ WaitUntilIdle(r)
    \/ ReadBaseline(r)
    \/ SetInputFast(r)
    \/ Commit(r)
    \/ Started(r)
    \/ RetryCommit(r)
    \/ NotStarted(r)
    \/ StreamPoll(r)
    \/ StreamFinal(r)
    \/ FinalPoll(r)
    \/ FinalTimeout(r)

Next ==
    \/ \E r \in Reqs : Arrive(r)
    \/ \E r \in Reqs : HandlerStep(r)
    \/ \E r \in Reqs : Stall(r)
    \/ \E r \in Reqs : Finish(r)
    \/ \E r \in Reqs : ClientDisconnect(r)
    \/ \E r \in Reqs : WatchdogFire(r)
    \/ SurfaceNewSegment
    \/ SurfaceRender
    \/ Tick


\* two requests against a page that renders one text
Spec == Init /\ [][Next]_vars

\* two requests against a page that never answers; handler steps, timers
\* and the events of a response that has ended do happen, but a client need
\* not send a request nor go away, and a call into the page may never settle
QuietOlds == {<<>>, <<[kind |-> "root", vis |-> TRUE, text |-> T_Old, spin |-> FALSE, turn |-> 0]>>}
InitQuiet == InitWith({1, 2}, QuietPage, QuietOlds)
QuietNext ==
    \/ \E r \in Reqs : Arrive(r)
    \/ \E r \in Reqs : HandlerStep(r)
    \/ \E r \in Reqs : Stall(r)
    \/ \E r \in Reqs : Finish(r)
    \/ \E r \in Reqs : ClientDisconnect(r)
    \/ \E r \in Reqs : WatchdogFire(r)
    \/ Tick
FairSpec ==
    /\ InitQuiet
    /\ [][QuietNext]_vars
    /\ WF_vars(Tick)
    /\ \A r \in Reqs : WF_vars(HandlerStep(r))
    /\ \A r \in Reqs : WF_vars(Finish(r))
    /\ \A r \in Reqs : WF_vars(WatchdogFire(r))

\* one request against a page whose new replies never show any text
BlankPage == [texts |-> {T_Empty}, kinds |-> Kinds, vis |-> BOOLEAN, spins |-> BOOLEAN]
InitBlank == InitWith({1}, BlankPage, OldSegs)
BlankSpec == InitBlank /\ [][Next]_vars

\* one request against a page that renders many texts
InitCapture == InitWith({1}, CapturePage, OldSegs)
CaptureSpec == InitCapture /\ [][Next]_vars

\* one request against a page that writes its reply "Hel", then "Hello",
\* without a pause and without a spinner, and leaves it there
GrowPage == [texts |-> {T_Hel, T_Hello}, kinds |-> {"root"}, vis |-> {TRUE}, spins |-> {FALSE}]

\* the page extends the text of the newest reply to the next longer text
SurfaceGrow ==
    /\ segs # <<>>
    /\ segs[Len(segs)].turn # 0
    /\ \E t \in page.texts :
         /\ IsPrefix(segs[Len(segs)].text, t)
         /\ t # segs[Len(segs)].text
         /\ \A u \in page.texts :
               (IsPrefix(segs[Len(segs)].text, u) /\ IsPrefix(u, t))
                  => u \in {segs[Len(segs)].text, t}
         /\ segs' = [segs EXCEPT ![Len(segs)] = [@ EXCEPT !.text = t]]
    /\ UNCHANGED <<busy, pc, wd, wdLeft, releases, reqVars, res, input, pending, page, san, ops, box>>

\* no time passes while the page is in the middle of writing a reply
GrowTick ==
    /\ \A i \in 1..Len(segs) : segs[i].turn # 0 => segs[i].text # T_Hel
    /\ Tick

GrowNext ==
    \/ \E r \in Reqs : Arrive(r)
    \/ \E r \in Reqs : HandlerStep(r)
    \/ \E r \in Reqs : Stall(r)
    \/ \E r \in Reqs : Finish(r)
    \/ \E r \in Reqs : ClientDisconnect(r)
    \/ \E r \in Reqs : WatchdogFire(r)
    \/ SurfaceNewSegment
    \/ SurfaceGrow
    \/ GrowTick

InitGrow == InitWith({1}, GrowPage, QuietOlds)
GrowSpec == InitGrow /\ [][GrowNext]_vars

\* one request against a page that writes its reply "OK", then "OK."
DotPage == [texts |-> DotTexts, kinds |-> {"root"}, vis |-> {TRUE}, spins |-> {FALSE}]
InitDot == InitWith({1}, DotPage, QuietOlds)
DotSpec == InitDot /\ [][GrowNext]_vars

\* an error thrown in the stream branch between sseHead(res) and res.end()
\* (by res.write, by the generator): control passes to the catch block
StreamThrows(r) ==
    /\ stream[r]
    /\ pc[r] \in {"poll", "final"}
    /\ res[r].headersSent
    /\ pc' = [pc EXCEPT ![r] = "done"]
    /\ res' = [res EXCEPT ![r] = Caught(r, "error")]
    /\ UNCHANGED <<busy, wd, wdLeft, releases, reqVars, surfaceVars, page, san, ops, box>>

\* one request, with errors thrown while streaming
FaultNext ==
    \/ Next
    \/ \E r \in Reqs : StreamThrows(r)

InitFault == InitWith({1}, GatePage, {<<>>})
FaultSpec == InitFault /\ [][FaultNext]_vars

(***************************************************************************)
(* The other routes                                                        *)
(***************************************************************************)
\* the routes next to /v1/chat/completions; "peek" stands for the routes that
\* only read the page: /peek, /debug, /bubbles, /gemini-nodes
Routes == {"healthz", "status", "reset", "type-test", "peek"}

\* the request slot used for the requests to these routes
HouseReq == 3

\* res.json(...) of a route: the answer and, for /status, the busy it reports
RouteReply(code, msg) ==
    [NoResponse EXCEPT !.status = code, !.message = msg, !.headersSent = TRUE, !.ended = TRUE]

\* a request to one of the routes arrives
RouteArrive(h) ==
    /\ h = HouseReq
    /\ pc[h] = "absent"
    /\ \E route \in Routes : pc' = [pc EXCEPT ![h] = route]
    /\ res' = [res EXCEPT ![h] = NoResponse]
    /\ UNCHANGED <<busy, wd, wdLeft, releases, reqVars, surfaceVars, page, san, ops, box>>

\* app.get('/healthz')
Healthz(h) ==
    /\ pc[h] = "healthz"
    /\ pc' = [pc EXCEPT ![h] = "absent"]
    /\ res' = [res EXCEPT ![h] = RouteReply(200, "ok")]
    /\ UNCHANGED <<busy, wd, wdLeft, releases, reqVars, surfaceVars, page, san, ops, box>>

\* a variant of StatusBusy: the route reports idle whatever busy is
StatusBusyIdle == "busy: false"

\* the busy field of the answer of /status
StatusBusy == IF busy THEN "busy: true" ELSE "busy: false"

\* app.get('/status')
Status(h) ==
    /\ pc[h] = "status"
    /\ pc' = [pc EXCEPT ![h] = "absent"]
    /\ res' = [res EXCEPT ![h] = RouteReply(200, StatusBusy)]
    /\ UNCHANGED <<busy, wd, wdLeft, releases, reqVars, surfaceVars, page, san, ops, box>>

\* a variant of Reset: the route leaves busy as it is
ResetKeepsBusy(h) ==
    /\ pc[h] = "reset"
    /\ pc' = [pc EXCEPT ![h] = "absent"]
    /\ segs' = <<>>
    /\ input' = {}
    /\ pending' = {}
    /\ res' = [res EXCEPT ![h] = RouteReply(200, "reset")]
    /\ UNCHANGED <<busy, wd, wdLeft, releases, reqVars, page, san, ops, box>>

\* app.post('/reset'): busy = false, the page is closed and a new one opened;
\* no watchdog is cleared and no handler is stopped
Reset(h) ==
    /\ pc[h] = "reset"
    /\ pc' = [pc EXCEPT ![h] = "absent"]
    /\ busy' = FALSE
    /\ segs' = <<>>
    /\ input' = {}
    /\ pending' = {}
    /\ res' = [res EXCEPT ![h] = RouteReply(200, "reset")]
    /\ UNCHANGED <<wd, wdLeft, releases, reqVars, page, san, ops, box>>

\* app.post('/type-test'): pickActiveInput, then setInputFast writes the
\* text of the request into the input box
TypeTest(h) ==
    /\ pc[h] = "type-test"
    /\ pc' = [pc EXCEPT ![h] = "absent"]
    /\ \E found \in BOOLEAN, filled \in BOOLEAN :
         IF found
         THEN /\ input' = IF filled THEN {h} ELSE {}
              /\ res' = [res EXCEPT ![h] = RouteReply(200, "type-test")]
         ELSE /\ UNCHANGED input
              /\ res' = [res EXCEPT ![h] = RouteReply(500, "no_input")]
    /\ UNCHANGED <<busy, wd, wdLeft, releases, reqVars, segs, pending, page, san, ops, box>>

\* app.get('/peek') and the other routes that read the page
Peek(h) ==
    /\ pc[h] = "peek"
    /\ pc' = [pc EXCEPT ![h] = "absent"]
    /\ res' = [res EXCEPT ![h] = RouteReply(200, "peek")]
    /\ UNCHANGED <<busy, wd, wdLeft, releases, reqVars, surfaceVars, page, san, ops, box>>

\* one chat request next to requests to the other routes
RoutesNext ==
    \/ Next
    \/ \E h \in Reqs : RouteArrive(h)
    \/ \E h \in Reqs : Healthz(h)
    \/ \E h \in Reqs : Status(h)
    \/ \E h \in Reqs : Reset(h)
    \/ \E h \in Reqs : TypeTest(h)
    \/ \E h \in Reqs : Peek(h)

InitRoutes == InitWith({1}, GatePage, {<<>>})
RoutesSpec == InitRoutes /\ [][RoutesNext]_vars

\* a request to POST /reset arrives
ResetArrive(h) ==
    /\ h = HouseReq
    /\ pc[h] = "absent"
    /\ pc' = [pc EXCEPT ![h] = "reset"]
    /\ res' = [res EXCEPT ![h] = NoResponse]
    /\ UNCHANGED <<busy, wd, wdLeft, releases, reqVars, surfaceVars, page, san, ops, box>>

\* two chat requests next to requests to /reset; every call into the page
\* settles and no client goes away
ResetNext ==
    \/ \E r \in Reqs : Arrive(r)
    \/ \E r \in Reqs : HandlerStep(r)
    \/ \E r \in Reqs : Finish(r)
    \/ \E r \in Reqs : WatchdogFire(r)
    \/ SurfaceNewSegment
    \/ SurfaceRender
    \/ Tick
    \/ \E h \in Reqs : ResetArrive(h)
    \/ \E h \in Reqs : Reset(h)

ResetSpec == Init /\ [][ResetNext]_vars

(***************************************************************************)
(* tools/kilo_sanitizer.mjs: the request sanitizer                         *)
(***************************************************************************)
\* the longest messages array of a request body
MaxMsgs == 2

\* a message content is a string: here the words it is made of, which
\* whitespace separates
W_Hi == "hi"
W_Kilo == "Kilo"
W_Code == "Code"
W_Slug == "Current Mode <slug>ask</slug>"
\* buildMinimalSystemPrompt(...), which the mode slug follows
W_Sys == "minimal system prompt"

Contents == {<<W_Hi>>, <<W_Kilo>>, <<W_Code>>, <<W_Kilo, W_Code>>, <<W_Slug, W_Hi>>}
Messages == [role : {"system", "user"}, content : Contents]

\* the top-level model of a body, "absent" when the body has none
Models == {"absent", "gpt-4o", "gemini-webui"}
\* DEFAULTS.blockModels
BlockModels == {"gemini-2.5-flash", "gemini-webui"}

\* a request body: stream_options and tools say whether the body has the
\* field; tools is a field pruneTopFields does not allow
Payloads ==
    [messages : UNION {[1..n -> Messages] : n \in 0..MaxMsgs},
     model : Models, stream_options : BOOLEAN, tools : BOOLEAN]

\* SanitizeOptions, as buildSanitizeOptionsFromCFG fills them
SanitizeOptions ==
    [mode : {"tools-minimal", "tools-off", "passthrough"},
     stripStreamOptions : BOOLEAN, stripUnknownTopFields : BOOLEAN,
     stripModel : BOOLEAN]

\* msgs.map(m => typeof m?.content === 'string' ? m.content : '').join('\n')
RECURSIVE Joined(_)
Joined(msgs) ==
    IF msgs = <<>> THEN <<>> ELSE Head(msgs).content \o Joined(Tail(msgs))

\* /Kilo\s*Code/i, which every match of /You are Kilo Code/i matches too
KiloCodeIn(ws) == \E i \in 1..(Len(ws) - 1) : ws[i] = W_Kilo /\ ws[i + 1] = W_Code
\* /Current\s+Mode\s*<slug>.*?<\/slug>/is
SlugIn(ws) == \E i \in 1..Len(ws) : ws[i] = W_Slug

isKiloRequest(payload) ==
    LET joined == Joined(payload.messages)
    IN  SlugIn(joined) \/ KiloCodeIn(joined)

\* detectModeSlug(payload) || 'code'
detectModeSlug(payload) ==
    IF \E i \in 1..Len(payload.messages) : SlugIn(payload.messages[i].content)
    THEN "ask" ELSE "code"

\* out.replace(/^\s*Current\s+Mode[\s\S]*?<\/slug>\s*/i, '').trim(); return out || text
stripNoiseFromUserContent(text) ==
    IF text # <<>> /\ Head(text) = W_Slug /\ Tail(text) # <<>> THEN Tail(text) ELSE text

\* the minimal system prompt, then the last user message without its noise
rebuildMessages(original, modeSlug) ==
    LET users == SelectSeq(original.messages, LAMBDA m : m.role = "user")
        userContent == IF users = <<>> THEN <<>>
                       ELSE stripNoiseFromUserContent(users[Len(users)].content)
    IN  <<[role |-> "system", content |-> <<W_Sys, modeSlug>>]>>
        \o (IF userContent # <<>> THEN <<[role |-> "user", content |-> userContent]>>
            ELSE <<>>)

shouldBlockModel(value) == value # "absent" /\ value \in BlockModels

\* pruneTopFields(obj): model, messages and stream_options are allowed
pruneTopFields(obj) == [obj EXCEPT !.tools = FALSE]

RECURSIVE SizeOf(_)
SizeOf(msgs) ==
    IF msgs = <<>> THEN 0 ELSE 2 + Len(Head(msgs).content) + SizeOf(Tail(msgs))

\* Buffer.byteLength(JSON.stringify(payload)), counted in words and fields
ByteLength(payload) ==
    2 + SizeOf(payload.messages)
      + (IF payload.model # "absent" THEN 1 ELSE 0)
      + (IF payload.stream_options THEN 1 ELSE 0)
      + (IF payload.tools THEN 1 ELSE 0)

\* sanitizeKiloRequest after its early return: the rewriting of a request
RewriteKiloRequest(payload, options) ==
    LET modeSlug == detectModeSlug(payload)
        rebuilt == options.mode \in {"tools-minimal", "tools-off"}
        n1 == IF rebuilt THEN [payload EXCEPT !.messages = rebuildMessages(payload, modeSlug)]
              ELSE payload
        r1 == IF rebuilt THEN <<options.mode>> ELSE <<"passthrough">>
        dropSo == options.stripStreamOptions /\ n1.stream_options
        n2 == IF dropSo THEN [n1 EXCEPT !.stream_options = FALSE] ELSE n1
        r2 == IF dropSo THEN Append(r1, "+strip-stream-options") ELSE r1
        dropModel == /\ options.stripModel \/ shouldBlockModel(n2.model)
                     /\ n2.model # "absent"
        n3 == IF dropModel THEN [n2 EXCEPT !.model = "absent"] ELSE n2
        r3 == IF dropModel THEN Append(r2, "+strip-model") ELSE r2
        prune == options.stripUnknownTopFields
        n4 == IF prune THEN pruneTopFields(n3) ELSE n3
        r4 == IF prune THEN Append(r3, "+prune-top-fields") ELSE r3
    IN  [json |-> n4, changed |-> rebuilt \/ dropSo \/ dropModel \/ prune,
         reason |-> r4, bytesBefore |-> ByteLength(payload),
         bytesAfter |-> ByteLength(n4)]

\* a sanitizer without the early return
sanitizeEveryRequest(payload, options) == RewriteKiloRequest(payload, options)
sanitizeKiloRequest(payload, options) ==
    IF ~isKiloRequest(payload)
    THEN [json |-> payload, changed |-> FALSE, reason |-> <<"passthrough">>,
          bytesBefore |-> ByteLength(payload), bytesAfter |-> ByteLength(payload)]
    ELSE RewriteKiloRequest(payload, options)

\* maybeSanitizeKiloBody(inBody), SAN_ON being the switch CFG.SAN_ON
maybeSanitizeKiloBody(SAN_ON, inBody, opts) ==
    IF ~SAN_ON
    THEN [body |-> inBody, changed |-> FALSE,
          report |-> [on |-> FALSE, reason |-> <<>>, bytesBefore |-> 0, bytesAfter |-> 0]]
    ELSE LET s == sanitizeKiloRequest(inBody, opts)
         IN  [body |-> s.json, changed |-> s.changed,
              report |-> [on |-> TRUE, reason |-> s.reason,
                          bytesBefore |-> s.bytesBefore, bytesAfter |-> s.bytesAfter]]

\* toPrompt(body): the contents of the messages, joined by a rule
toPrompt(body) == [i \in 1..Len(body.messages) |-> body.messages[i].content]

\* express.json() hands a request body to the handler
ReceiveBody ==
    /\ san.at = "none"
    /\ \E p \in Payloads : san' = [at |-> "body", body |-> p]
    /\ UNCHANGED <<busy, pc, wd, wdLeft, releases, reqVars, res, surfaceVars, page, ops, box>>

\* the handler's first step: maybeSanitizeKiloBody(req.body), then
\* toPrompt(sanitizedBody)
MaybeSanitize ==
    /\ san.at = "body"
    /\ \E on \in BOOLEAN, opts \in SanitizeOptions :
         LET ret == maybeSanitizeKiloBody(on, san.body, opts)
         IN  san' = [at |-> "sanitized", body |-> san.body, on |-> on, opts |-> opts,
                     ret |-> ret, prompt |-> toPrompt(ret.body)]
    /\ UNCHANGED <<busy, pc, wd, wdLeft, releases, reqVars, res, surfaceVars, page, ops, box>>

SanitizeNext == ReceiveBody \/ MaybeSanitize
InitSanitize == InitWith({}, QuietPage, {<<>>})
SanitizeSpec == InitSanitize /\ [][SanitizeNext]_vars

(***************************************************************************)
(* The two capture forms side by side                                      *)
(***************************************************************************)
\* a page with one reply bubble that renders any text, spinner on or off
TwinPage == [texts |-> CaptureTexts, kinds |-> {"root"}, vis |-> {TRUE}, spins |-> BOOLEAN]

\* readAnswerInChunks(0) as request 1 and waitForFinalAnswer(0) as request 2
\* are called at the same moment on the same page, outside a handler (no
\* gate, no watchdog), the reply bubble being there and empty
InitTwin ==
    /\ busy = FALSE
    /\ pc = [r \in Reqs |-> IF r \in {1, 2} THEN "poll" ELSE "absent"]
    /\ stream = [r \in Reqs |-> r # 2]
    /\ wd = [r \in Reqs |-> "none"]
    /\ wdLeft = [r \in Reqs |-> 0]
    /\ releases = [r \in Reqs |-> 0]
    /\ baseline = [r \in Reqs |-> 0]
    /\ last = [r \in Reqs |-> <<>>]
    /\ full = [r \in Reqs |-> <<>>]
    /\ everHadText = [r \in Reqs |-> FALSE]
    /\ elapsed = [r \in Reqs |-> 0]
    /\ sinceChange = [r \in Reqs |-> 0]
    /\ res = [r \in Reqs |-> NoResponse]
    /\ \E sp \in BOOLEAN :
         segs = <<[kind |-> "root", vis |-> TRUE, text |-> <<>>, spin |-> sp, turn |-> 1]>>
    /\ input = {}
    /\ pending = {}
    /\ page = TwinPage
    /\ san = NoCall
    /\ ops = [r \in Reqs |-> <<>>]
    /\ box = NoBox

\* the page renders between two polls, never between the reads the two
\* forms make at the same poll: both see the same trace
TwinRender ==
    /\ \A r \in Reqs : pc[r] \notin {"poll", "final"}
    /\ \E r \in Reqs : pc[r] = "sleep"
    /\ SurfaceRender

TwinNext ==
    \/ \E r \in Reqs : StreamPoll(r)
    \/ \E r \in Reqs : StreamFinal(r)
    \/ \E r \in Reqs : FinalPoll(r)
    \/ \E r \in Reqs : FinalTimeout(r)
    \/ TwinRender
    \/ Tick

TwinSpec == InitTwin /\ [][TwinNext]_vars

\* one request against a page with one kind of reply bubble that renders any
\* text; time passes, timers fire and every step of the handler that can be
\* taken is taken (each call into the page settles), while the page and the
\* client do as they like
RunNext ==
    \/ \E r \in Reqs : Arrive(r)
    \/ \E r \in Reqs : HandlerStep(r)
    \/ \E r \in Reqs : Finish(r)
    \/ \E r \in Reqs : ClientDisconnect(r)
    \/ \E r \in Reqs : WatchdogFire(r)
    \/ SurfaceNewSegment
    \/ SurfaceRender
    \/ Tick

InitRun == InitWith({1}, TwinPage, QuietOlds)
RunSpec ==
    /\ InitRun
    /\ [][RunNext]_vars
    /\ WF_vars(Tick)
    /\ \A r \in Reqs : WF_vars(HandlerStep(r))
    /\ \A r \in Reqs : WF_vars(Finish(r))
    /\ \A r \in Reqs : WF_vars(WatchdogFire(r))

(***************************************************************************)
(* submitPrompt and setInputFast, step by step                             *)
(***************************************************************************)
\* what submitPrompt does, as ops records it: the idle wait is over, the
\* reply bubbles are counted, the input is cleared, a strategy is attempted
\* (by its letter), okAfter() held, the send button is looked at a last
\* time and is ready, paste_failed is thrown, Enter is pressed, the send
\* button is clicked
OpIdle == "idle"
OpCount == "count"
OpClear == "clear"
OpOk == "ok"
OpReady == "ready"
OpPasteFailed == "paste_failed"
OpEnter == "Enter"
OpClick == "click"
\* the strategies of setInputFast in the order of the source, and its
\* closing look at the send button
Strategies == <<"A", "B", "C">>
OpD == "D"
CommitOps == {OpEnter, OpClick}

Logged(r, op) == [ops EXCEPT ![r] = Append(@, op)]

\* a variant of AwaitIdle: a wait that runs out of time throws
AwaitIdleThrows(r) ==
    /\ pc[r] = "idle"
    /\ \E busyBtn \in BOOLEAN :
         IF ~busyBtn
         THEN pc' = [pc EXCEPT ![r] = "pick"] /\ ops' = Logged(r, OpIdle) /\ UNCHANGED res
         ELSE IF elapsed[r] >= IDLE_TICKS
         THEN /\ pc' = [pc EXCEPT ![r] = "done"]
              /\ res' = [res EXCEPT ![r] = Caught(r, "not_idle")]
              /\ UNCHANGED ops
         ELSE pc' = [pc EXCEPT ![r] = "idle_sleep"] /\ UNCHANGED <<ops, res>>
    /\ UNCHANGED <<busy, stream, wd, wdLeft, releases, baseline, last, full, everHadText,
                   elapsed, sinceChange, surfaceVars, page, san, box>>

\* await waitUntilIdle(15000): one pass of its loop
AwaitIdle(r) ==
    /\ pc[r] = "idle"
    /\ \E busyBtn \in BOOLEAN :
         IF elapsed[r] >= IDLE_TICKS \/ ~busyBtn
         THEN pc' = [pc EXCEPT ![r] = "pick"] /\ ops' = Logged(r, OpIdle)
         ELSE pc' = [pc EXCEPT ![r] = "idle_sleep"] /\ UNCHANGED ops
    /\ UNCHANGED <<busy, stream, wd, wdLeft, releases, baseline, last, full, everHadText,
                   elapsed, sinceChange, res, surfaceVars, page, san, box>>

\* const sel = await pickActiveInput(); if (!sel) throw ...
PickActiveInput(r) ==
    /\ pc[r] = "pick"
    /\ \E found \in BOOLEAN :
         IF found
         THEN /\ pc' = [pc EXCEPT ![r] = "count"]
              /\ UNCHANGED res
         ELSE /\ pc' = [pc EXCEPT ![r] = "done"]
              /\ res' = [res EXCEPT ![r] = Caught(r, "input_not_found")]
    /\ UNCHANGED <<busy, stream, wd, wdLeft, releases, baseline, last, full, everHadText,
                   elapsed, sinceChange, surfaceVars, page, san, ops, box>>

\* const beforeCount = await page.$$eval(ANSWER_ROOT, n => n.length).catch(() => 0)
CountRoots(r) ==
    /\ pc[r] = "count"
    /\ \E failed \in BOOLEAN :
         baseline' = [baseline EXCEPT ![r] = IF failed THEN 0 ELSE beforeCount]
    /\ ops' = Logged(r, OpCount)
    /\ pc' = [pc EXCEPT ![r] = "clear1"]
    /\ UNCHANGED <<busy, stream, wd, wdLeft, releases, last, full, everHadText,
                   elapsed, sinceChange, res, surfaceVars, page, san, box>>

ClearPc == <<"clear1", "clear2", "clear3">>
TryPc == <<"try1", "try2", "try3">>

\* await focusAndClear() before strategy number k
FocusAndClear(r, k) ==
    /\ pc[r] = ClearPc[k]
    /\ input' = {}
    /\ ops' = Logged(r, OpClear)
    /\ pc' = [pc EXCEPT ![r] = TryPc[k]]
    /\ UNCHANGED <<busy, stream, wd, wdLeft, releases, baseline, last, full, everHadText,
                   elapsed, sinceChange, res, segs, pending, page, san, box>>

\* a variant of AfterStrategy: the next strategy is attempted whatever the
\* verification said
AfterStrategyGoesOn(k, verified) ==
    IF k < Len(Strategies) THEN ClearPc[k + 1]
    ELSE IF verified THEN "settle" ELSE "checkD"

\* where setInputFast goes after strategy number k: return true when
\* okAfter() held, else the next strategy, and after the last one the look
\* at the send button
AfterStrategy(k, verified) ==
    IF verified THEN "settle"
    ELSE IF k < Len(Strategies) THEN ClearPc[k + 1]
    ELSE "checkD"

\* strategy number k and its okAfter(): ran says whether the strategy got
\* as far as okAfter (A: ok was true; all: nothing threw), filled whether
\* the input holds text afterwards (verifyInputMatches or hasInputText),
\* ready whether isSendButtonReady(1800) held
TryStrategy(r, k) ==
    /\ pc[r] = TryPc[k]
    /\ \E ran \in BOOLEAN, filled \in BOOLEAN, ready \in BOOLEAN :
         LET verified == ran /\ (filled \/ ready)
         IN  /\ input' = IF filled THEN {r} ELSE {}
             /\ pc' = [pc EXCEPT ![r] = AfterStrategy(k, verified)]
             /\ ops' = [ops EXCEPT ![r] =
                          @ \o <<Strategies[k]>> \o (IF verified THEN <<OpOk>> ELSE <<>>)]
    /\ UNCHANGED <<busy, stream, wd, wdLeft, releases, baseline, last, full, everHadText,
                   elapsed, sinceChange, res, segs, pending, page, san, box>>

\* a variant of AfterCheck: submitPrompt goes on whatever setInputFast
\* returned
AfterCheckGoesOn(ready) == "settle"

\* const ok = await setInputFast(sel, prompt); if (!ok) throw ...
AfterCheck(ready) == IF ready THEN "settle" ELSE "done"

\* D: if (await isSendButtonReady(2000)) return true; return false, and
\* then in submitPrompt: if (!ok) throw new Error('paste_failed')
CheckSendButton(r) ==
    /\ pc[r] = "checkD"
    /\ \E ready \in BOOLEAN :
         /\ pc' = [pc EXCEPT ![r] = AfterCheck(ready)]
         /\ ops' = [ops EXCEPT ![r] =
                      @ \o <<OpD, IF ready THEN OpReady ELSE OpPasteFailed>>]
         /\ res' = IF ready THEN res
                   ELSE [res EXCEPT ![r] = Caught(r, "paste_failed")]
    /\ UNCHANGED <<busy, stream, wd, wdLeft, releases, baseline, last, full, everHadText,
                   elapsed, sinceChange, surfaceVars, page, san, box>>

\* setInputFast returned true: the settle wait, isSendButtonReady(5000) and
\* page.keyboard.press('Enter')
PressEnter(r) ==
    /\ pc[r] = "settle"
    /\ PageCommit
    /\ ops' = Logged(r, OpEnter)
    /\ pc' = [pc EXCEPT ![r] = "click"]
    /\ UNCHANGED <<busy, stream, wd, wdLeft, releases, baseline, last, full, everHadText,
                   elapsed, sinceChange, res, segs, page, san, box>>

\* try { await clickSendButton() } catch {}, unless FORCE_ENTER_ONLY; then
\* the wait for the reply to start begins
ClickSendButton(r) ==
    /\ pc[r] = "click"
    /\ \E forceEnterOnly \in BOOLEAN :
         IF forceEnterOnly
         THEN UNCHANGED <<input, pending, ops>>
         ELSE PageCommit /\ ops' = Logged(r, OpClick)
    /\ pc' = [pc EXCEPT ![r] = "started"]
    /\ elapsed' = [elapsed EXCEPT ![r] = 0]
    /\ UNCHANGED <<busy, stream, wd, wdLeft, releases, baseline, last, full, everHadText,
                   sinceChange, res, segs, page, san, box>>

\* no evidence within 4000 ms: the commit is made once more, by
\* clickSendButton(), or by Enter under FORCE_ENTER_ONLY (the setting under
\* which the first attempt made no click)
RetryClick(r) ==
    /\ pc[r] = "started"
    /\ ~StartedPred(baseline[r])
    /\ elapsed[r] >= START_TICKS
    /\ PageCommit
    /\ ops' = Logged(r, IF \E i \in 1..Len(ops[r]) : ops[r][i] = OpClick
                        THEN OpClick ELSE OpEnter)
    /\ pc' = [pc EXCEPT ![r] = "started2"]
    /\ elapsed' = [elapsed EXCEPT ![r] = 0]
    /\ UNCHANGED <<busy, stream, wd, wdLeft, releases, baseline, last, full, everHadText,
                   sinceChange, res, segs, page, san, box>>

\* a variant of ReturnedBaseline: the bubbles are counted anew on return
RecountedBaseline(r) == beforeCount

\* if (started) return beforeCount; ... const baseline = await submitPrompt(prompt)
ReturnedBaseline(r) == baseline[r]

\* submitPrompt returns and the handler starts the capture with the value
\* returned
SubmitReturns(r) ==
    /\ pc[r] \in {"started", "started2"}
    /\ StartedPred(baseline[r])
    /\ baseline' = [baseline EXCEPT ![r] = ReturnedBaseline(r)]
    /\ pc' = [pc EXCEPT ![r] = "poll"]
    /\ elapsed' = [elapsed EXCEPT ![r] = 0]
    /\ sinceChange' = [sinceChange EXCEPT ![r] = 0]
    /\ last' = [last EXCEPT ![r] = <<>>]
    /\ full' = [full EXCEPT ![r] = <<>>]
    /\ everHadText' = [everHadText EXCEPT ![r] = FALSE]
    /\ res' = [res EXCEPT ![r] = IF stream[r]
                                 THEN [@ EXCEPT !.status = 200, !.headersSent = TRUE]
                                 ELSE @]
    /\ UNCHANGED <<busy, stream, wd, wdLeft, releases, surfaceVars, page, san, ops, box>>

\* request r is inside setInputFast or between it and the wait for the start
InSubmitSteps(r) ==
    pc[r] \in {"pick", "count", "clear1", "try1", "clear2", "try2", "clear3", "try3",
               "checkD", "settle", "click"}

\* no time passes between the steps above
SubmitTick ==
    /\ \A r \in Reqs : ~InSubmitSteps(r)
    /\ Tick

SubmitNext ==
    \/ \E r \in Reqs : Arrive(r)
    \/ \E r \in Reqs : EnsureBrowser(r)
    \/ \E r \in Reqs : AwaitIdle(r)
    \/ \E r \in Reqs : PickActiveInput(r)
    \/ \E r \in Reqs : CountRoots(r)
    \/ \E r \in Reqs, k \in 1..Len(Strategies) : FocusAndClear(r, k)
    \/ \E r \in Reqs, k \in 1..Len(Strategies) : TryStrategy(r, k)
    \/ \E r \in Reqs : CheckSendButton(r)
    \/ \E r \in Reqs : PressEnter(r)
    \/ \E r \in Reqs : ClickSendButton(r)
    \/ \E r \in Reqs : RetryClick(r)
    \/ \E r \in Reqs : NotStarted(r)
    \/ \E r \in Reqs : SubmitReturns(r)
    \/ \E r \in Reqs : StreamPoll(r)
    \/ \E r \in Reqs : StreamFinal(r)
    \/ \E r \in Reqs : FinalPoll(r)
    \/ \E r \in Reqs : FinalTimeout(r)
    \/ \E r \in Reqs : Finish(r)
    \/ \E r \in Reqs : WatchdogFire(r)
    \/ SurfaceNewSegment
    \/ SurfaceRender
    \/ SubmitTick

\* one request, its submitPrompt followed step by step, against a page that
\* renders one text and may hold a reply of an earlier conversation
InitSubmit == InitWith({1}, GatePage, QuietOlds)
SubmitSpec == InitSubmit /\ [][SubmitNext]_vars

\* the same, where time passes and every step of the handler that can be
\* taken is taken: each call into the page settles
FairSubmitSpec ==
    /\ InitSubmit
    /\ [][SubmitNext]_vars
    /\ WF_vars(SubmitTick)
    /\ \A r \in Reqs : WF_vars(AwaitIdle(r))

(***************************************************************************)
(* The checks of the input box: verifyInputMatches and okAfter            *)
(***************************************************************************)
\* the longest content of the input box, and how often a check is repeated
MaxBoxLen == 3
MaxChecks == 2
\* e.slice(0, Math.min(12, e.length))
HEAD_LEN == 12

\* characters the input box may hold; "U200B" is the zero-width space
BoxChars == {"a", "b", " ", "\n", "U200B"}
BoxTexts == UNION { [1..n -> BoxChars] : n \in 0..MaxBoxLen }

\* prompts as toPrompt returns them: trimmed and not empty
Prompts == {<<"a">>, <<"a", "b">>, <<"a", " ", "b">>, <<"b", "\n", "a">>}

\* the characters norm deletes, and norm itself:
\* .replace(/\r/g, '').replace(/\u00A0/g, ' ').replace(/[\u200B-\u200D\uFEFF]/g, '').trim()
ZeroWidth == {"U200B", "U200C", "U200D", "UFEFF"}
Norm(txt) ==
    LET kept(c) == c # "\r" /\ c \notin ZeroWidth
        noCr == SelectSeq(txt, kept)
    IN  Trim([i \in 1..Len(noCr) |-> IF noCr[i] = "U00A0" THEN " " ELSE noCr[i]])

\* the predicate verifyInputMatches waits for, on the content cur0 of the
\* input box and the text exp expected in it
verifyInputMatches(cur0, exp) ==
    LET cur  == Norm(cur0)
        e    == Norm(exp)
        head == SubSeq(e, 1, IF Len(e) < HEAD_LEN THEN Len(e) ELSE HEAD_LEN)
    IN  /\ cur # <<>>
        /\ \/ cur = e \/ cur \o <<"\n">> = e \/ e \o <<"\n">> = cur
           \/ Includes(cur, e) \/ Includes(e, cur)
           \/ head # <<>> /\ Includes(cur, head)
           \/ Len(cur) >= (Len(e) * 7) \div 10

\* hasInputText: the content without its white space is not empty
hasInputText(content) == \E i \in 1..Len(content) : content[i] \notin WhiteChars

\* page.keyboard.type(' ') and page.keyboard.press('Backspace') with the
\* caret at the end of the content
TypeKey(content, c) == Append(content, c)
Backspace(content) == IF content = <<>> THEN <<>> ELSE SubSeq(content, 1, Len(content) - 1)

\* a variant of Nudge: the space typed is left in the input box
NudgeLeavesSpace(content) == TypeKey(content, " ")

\* the keystrokes okAfter makes before it looks at the input box
Nudge(content) == Backspace(TypeKey(content, " "))

\* what okAfter returns for the content it finds after its keystrokes
okAfter(content, exp, ready) ==
    \/ verifyInputMatches(content, exp)
    \/ ready
    \/ hasInputText(content)

\* setInputFast is called with a prompt: expected is the prompt without \r
\* and with every U+00A0 made a space (none of the prompts holds either)
InitBox ==
    /\ busy = FALSE
    /\ pc = [r \in Reqs |-> "absent"]
    /\ stream = [r \in Reqs |-> TRUE]
    /\ wd = [r \in Reqs |-> "none"]
    /\ wdLeft = [r \in Reqs |-> 0]
    /\ releases = [r \in Reqs |-> 0]
    /\ baseline = [r \in Reqs |-> 0]
    /\ last = [r \in Reqs |-> <<>>]
    /\ full = [r \in Reqs |-> <<>>]
    /\ everHadText = [r \in Reqs |-> FALSE]
    /\ elapsed = [r \in Reqs |-> 0]
    /\ sinceChange = [r \in Reqs |-> 0]
    /\ res = [r \in Reqs |-> NoResponse]
    /\ segs = <<>>
    /\ input = {}
    /\ pending = {}
    /\ page = QuietPage
    /\ san = NoCall
    /\ ops = [r \in Reqs |-> <<>>]
    /\ \E exp \in Prompts :
         box = [at |-> "cleared", expected |-> exp, content |-> <<>>, injected |-> <<>>,
                ready |-> FALSE, injections |-> 0, verifyLog |-> <<>>, okLog |-> <<>>]

boxFrame == <<busy, pc, stream, wd, wdLeft, releases, baseline, last, full, everHadText,
              elapsed, sinceChange, res, segs, input, pending, page, san, ops>>

\* one of the strategies A, B, C writes the prompt: the page makes of it the
\* content it likes (rich text), and shows the send button ready or not
Inject ==
    /\ box.at = "cleared"
    /\ \E content \in BoxTexts, ready \in BOOLEAN :
         box' = [box EXCEPT !.at = "injected", !.content = content, !.injected = content,
                            !.ready = ready, !.injections = @ + 1]
    /\ UNCHANGED boxFrame

\* await verifyInputMatches(sel, expected, ms) on the page as it is
VerifyInputMatches ==
    /\ box.at = "injected"
    /\ Len(box.verifyLog) < MaxChecks
    /\ box' = [box EXCEPT !.verifyLog =
                  Append(@, verifyInputMatches(box.content, box.expected))]
    /\ UNCHANGED boxFrame

\* await okAfter() on the page as it is
OkAfter ==
    /\ box.at = "injected"
    /\ Len(box.okLog) < MaxChecks
    /\ LET content == Nudge(box.content)
       IN  box' = [box EXCEPT !.content = content,
                              !.okLog = Append(@, okAfter(content, box.expected, box.ready))]
    /\ UNCHANGED boxFrame

BoxNext == Inject \/ VerifyInputMatches \/ OkAfter
BoxSpec == InitBox /\ [][BoxNext]_vars

(***************************************************************************)
(* Properties                                                              *)
(***************************************************************************)
\* request r is executing submitPrompt, readAnswerInChunks or
\* waitForFinalAnswer
OnSurface(r) ==
    pc[r] \in {"idle", "idle_sleep", "pick", "input", "commit", "started", "started2",
               "poll", "sleep", "final", "stuck"}

\* C1: at every moment at most one request is executing submitPrompt,
\* readAnswerInChunks or waitForFinalAnswer, whatever the interleaving of
\* arrivals, completions, client disconnects and watchdog firings.
C1_OneTurnAtATime == Cardinality({r \in Reqs : OnSurface(r)}) <= 1

\* C2: a request that arrives while busy is true is answered 429 at once
\* without touching busy or arming a watchdog, and stays rejected for good (it
\* is never queued nor run later); a request that arrives while busy is false
\* is admitted: busy becomes true, its watchdog is armed and it goes on to
\* submitPrompt (or is answered 400 for an empty prompt).
C2_GateDecides ==
    [][\A r \in Reqs :
         /\ (pc[r] = "new" /\ pc'[r] # "new") =>
               IF busy
               THEN /\ pc'[r] = "rejected"
                    /\ res'[r].status = 429 /\ res'[r].ended
                    /\ busy' /\ wd'[r] = "none"
               ELSE /\ busy' /\ wd'[r] = "armed"
                    /\ pc'[r] \in {"ensure", "done"}
                    /\ pc'[r] = "done" => res'[r].status = 400
         /\ pc[r] = "rejected" =>
               pc'[r] = "rejected" /\ res'[r] = res[r] /\ wd'[r] = "none"]_vars

\* a request admitted after an earlier one released the gate by ending
C2_AdmittedAfterRelease ==
    \E r \in Reqs, q \in Reqs :
        /\ r # q
        /\ res[r].finished /\ wd[r] = "cleared"
        /\ busy /\ wd[q] = "armed" /\ pc[q] = "idle"

\* C3: after every admission busy becomes false again, even when the page
\* never answers and no client goes away: the watchdog armed at admission
\* fires after MAX_ANSWER_MS + 2000 ms.
C3_BusyEndsFalse == busy ~> ~busy

\* the watchdog released the gate under a handler stuck in a call into the
\* page whose client is still there, and a later request was admitted
C3_AdmittedAfterWatchdog ==
    \E r \in Reqs, q \in Reqs :
        /\ r # q
        /\ wd[r] = "fired" /\ pc[r] = "stuck" /\ ~res[r].closed
        /\ busy /\ wd[q] = "armed"

\* C4: every ending of an admitted request (a response that has finished,
\* whatever its status, or a client that went away) sets busy to false and
\* leaves the watchdog disarmed, and a handler that has returned has ended
\* its response, so that the ending does not wait for the watchdog.
C4_EveryEndingReleases ==
    [][\A r \in Reqs :
         /\ (/\ wd[r] # "none"
             /\ ~(res[r].finished \/ res[r].closed)
             /\ res'[r].finished \/ res'[r].closed)
               => ~busy' /\ wd'[r] \in {"cleared", "fired"}
         /\ pc'[r] = "done" => res'[r].ended]_vars

\* a response that finished with its watchdog cleared before it could fire
C4_ReleasedBeforeWatchdog ==
    \E r \in Reqs :
        /\ res[r].finished /\ res[r].status = 200
        /\ wd[r] = "cleared" /\ ~busy

\* C5: whatever the visibility and the kind of the bubbles on the page, a
\* read made with the baseline of a turn returns a bubble that this turn's
\* prompt created, never a bubble that was there before.
C5_ReadsOnlyThisTurn ==
    \A r \in Reqs :
        pc[r] \in {"poll", "final"} =>
            LET st == getBubbleState(baseline[r])
            IN  st.hasBubble => st.turn = r

\* C6: in readAnswerInChunks the text held in last only ever extends: each
\* poll leaves it as it was or replaces it by a text it is a prefix of, and a
\* poll whose cleaned text does not extend last yields nothing.
C6_LastOnlyExtends ==
    [][\A r \in Reqs :
         (stream[r] /\ pc[r] = "poll") =>
            /\ IsPrefix(last[r], last'[r])
            /\ ~IsPrefix(last[r], CleanStream(grabAnswerText(baseline[r])))
                  => last'[r] = last[r] /\ full'[r] = full[r]]_vars

\* C7: while readAnswerInChunks runs, the deltas yielded so far, put
\* together, are a prefix of the text held in last.
C7_SentIsPrefixOfLast ==
    \A r \in Reqs :
        (stream[r] /\ pc[r] \in {"poll", "sleep", "final"}) => IsPrefix(full[r], last[r])

\* the handler of r got as far as the capture
CaptureRan(r) ==
    /\ pc[r] = "done"
    /\ res[r].message \notin {"empty prompt", "proxy_error", "submit_not_started"}

\* C8: against a page whose new replies never show any text, a run of
\* waitForFinalAnswer ends in no_text_captured, answered 502.
C8_NoTextThrows ==
    \A r \in Reqs :
        (~stream[r] /\ CaptureRan(r)) =>
            res[r].status = 502 /\ res[r].message = "no_text_captured"

\* C9: against a page whose new replies never show any text, a capture that
\* captured nothing ends in the failure no_text_captured in both modes, never
\* in a success with empty content.
C9_BothModesFail ==
    \A r \in Reqs :
        (CaptureRan(r) /\ (IF stream[r] THEN full[r] = <<>> ELSE ~everHadText[r])) =>
            /\ res[r].status = 502 /\ res[r].message = "no_text_captured"
            /\ ~(res[r].status = 200 /\ res[r].content = <<>>)

\* C10: a capture that has some text when MAX_ANSWER_MS runs out ends in
\* success: waitForFinalAnswer returns the text it holds, answered 200, and
\* the stream ends with [DONE] after the deltas already sent.
C10_PartialTextAtTimeout ==
    [][\A r \in Reqs :
         (pc[r] = "poll" /\ elapsed[r] >= MAX_ANSWER_TICKS /\ pc'[r] = "done") =>
            IF stream[r]
            THEN full[r] # <<>> =>
                    /\ res'[r].status = 200 /\ res'[r].doneMark /\ res'[r].ended
                    /\ IsPrefix(full[r], res'[r].content)
            ELSE everHadText[r] =>
                    /\ res'[r].status = 200 /\ res'[r].ended
                    /\ res'[r].content = last[r] /\ last[r] # <<>>]_vars

\* waitForFinalAnswer ran out of time holding a text and returned it
C10_ReturnedAtTimeout ==
    \E r \in Reqs :
        /\ ~stream[r] /\ pc[r] = "done" /\ elapsed[r] >= MAX_ANSWER_TICKS
        /\ everHadText[r]
        /\ res[r].status = 200 /\ res[r].content = last[r] /\ last[r] # <<>>

\* C11: when the reply grows from "Hel" to "Hello" and stays there with no
\* spinner, a capture that got any of it and ended before MAX_ANSWER_MS ends
\* with the whole of it:
\* readAnswerInChunks has yielded "Hel" and "lo" (or "Hello"), and
\* waitForFinalAnswer returns "Hello".
C11_GrowingTextCaptured ==
    \A r \in Reqs :
        (/\ pc[r] = "done" /\ res[r].status = 200 /\ res[r].content # <<>>
         /\ elapsed[r] < MAX_ANSWER_TICKS
         /\ \E i \in 1..Len(segs) : segs[i].turn = r /\ segs[i].text = T_Hello)
            => res[r].content = T_Hello

\* C12: when the reply goes from "OK" to "OK." the capture takes both for
\* "OK": the stream sends the one delta "OK" and nothing for the dot, and the
\* aggregate answer is "OK".
C12_TrailingDotFiltered ==
    \A r \in Reqs : res[r].status = 200 => res[r].content \in {<<>>, T_OK}

\* C13: against a page that never answers a commit (no new reply bubble, no
\* new text), whatever bubbles it held before, submitPrompt never returns a
\* baseline: no capture starts, and a handler that got as far as the commit
\* ends in submit_not_started.
C13_NotStartedThrows ==
    \A r \in Reqs :
        /\ pc[r] \notin {"poll", "sleep", "final"}
        /\ pc[r] = "done" =>
              res[r].message \in {"empty prompt", "proxy_error", "submit_not_started"}

C15_SubmitFailuresAnswered502 ==
    [][\A r \in Reqs :
         /\ (pc[r] \in {"pick", "input", "started2"} /\ pc'[r] = "done") =>
               /\ ~res[r].headersSent /\ res[r].content = <<>>
               /\ res'[r].status = 502 /\ res'[r].ended /\ res'[r].content = <<>>
               /\ res'[r].message =
                     IF pc[r] = "started2" THEN "submit_not_started" ELSE "proxy_error"
         /\ (stream[r] /\ ~res[r].headersSent /\ res'[r].headersSent /\ res'[r].status = 200) =>
               /\ pc[r] \in {"started", "started2"} /\ pc'[r] = "poll"
               /\ StartedPred(baseline[r])]_vars

\* a streaming request answered 502 submit_not_started with nothing sent before
C15_StreamNotStarted ==
    \E r \in Reqs :
        /\ stream[r] /\ pc[r] = "done"
        /\ res[r].status = 502 /\ res[r].message = "submit_not_started"
        /\ res[r].content = <<>> /\ ~res[r].doneMark

\* C16: a handler that has returned after the headers of its response were
\* sent, by an error too, has closed the response, so that the turn ends
\* without a client disconnect or the watchdog.
C16_FailedStreamIsClosed ==
    \A r \in Reqs : (pc[r] = "done" /\ res[r].headersSent) => res[r].ended

\* C17: a client that goes away during a turn releases the gate (busy false,
\* watchdog cleared), and from then on the abandoned turn writes no delta and
\* no end marker to its closed response.
C17_NoWriteAfterClose ==
    [][\A r \in Reqs :
         /\ (~res[r].closed /\ res'[r].closed) => ~busy' /\ wd'[r] # "armed"
         /\ (stream[r] /\ res[r].closed) =>
               res'[r].content = res[r].content /\ res'[r].doneMark = res[r].doneMark]_vars

\* C18: while a turn is in flight no request to another route (/type-test,
\* /reset, /peek, /debug, /bubbles) writes into the input box, closes or
\* replaces the page, or changes the gate.
C18_OnlyTheTurnTouchesThePage ==
    [][\A h \in Reqs :
         (/\ \E r \in Reqs : OnSurface(r)
          /\ pc[h] \in Routes /\ pc'[h] = "absent")
            => UNCHANGED <<busy, segs, input, pending>>]_vars

\* C19: a request to /healthz or /status can be answered in every state,
\* also while a turn is in flight; the answer is a 200, /status reports the
\* value busy has at that moment, and answering changes neither busy nor the
\* watchdogs nor the page.
C19_HealthAndStatusAnswer ==
    /\ [](\A h \in Reqs :
            /\ pc[h] = "healthz" => ENABLED Healthz(h)
            /\ pc[h] = "status" => ENABLED Status(h))
    /\ [][\A h \in Reqs :
            (pc[h] \in {"healthz", "status"} /\ pc'[h] = "absent") =>
               /\ res'[h].status = 200 /\ res'[h].ended
               /\ pc[h] = "status" =>
                     res'[h].message = IF busy THEN "busy: true" ELSE "busy: false"
               /\ UNCHANGED <<busy, wd, wdLeft, segs, input, pending>>]_vars

\* /status answered busy: true while a turn is on the page
C19_StatusSaysBusy ==
    \E h \in Reqs :
        /\ pc[h] = "absent" /\ res[h].message = "busy: true"
        /\ busy
        /\ \E r \in Reqs : OnSurface(r)

\* C20: sanitizeKiloRequest rewrites a request only when it detects a Kilo
\* Code request: a body isKiloRequest does not detect comes back as it was
\* under every option set, with changed false, the reason "passthrough" and
\* bytesAfter equal to bytesBefore, and the prompt is the one built from
\* the original body.
C20_OtherRequestsPassThrough ==
    (san.at = "sanitized" /\ san.on /\ ~isKiloRequest(san.body))
        => /\ san.ret.body = san.body
           /\ ~san.ret.changed
           /\ san.ret.report.reason = <<"passthrough">>
           /\ san.ret.report.bytesAfter = san.ret.report.bytesBefore
           /\ san.prompt = toPrompt(san.body)

\* a body that names Code and Kilo the wrong way round, and has a blocked
\* model, stream_options and a field pruneTopFields would drop, has gone
\* through a sanitizer set to rewrite all of it
C20_NearMissUnderFullRewrite ==
    /\ san.at = "sanitized" /\ san.on
    /\ ~isKiloRequest(san.body)
    /\ Joined(san.body.messages) = <<W_Code, W_Kilo>>
    /\ san.body.model = "gemini-webui" /\ san.body.stream_options /\ san.body.tools
    /\ san.opts = [mode |-> "tools-minimal", stripStreamOptions |-> TRUE,
                   stripUnknownTopFields |-> TRUE, stripModel |-> TRUE]

\* C21: for each admitted request the release (clearTimeout(watchdog) and
\* busy = false, the body of the close and finish callbacks) runs exactly
\* once: never twice, and once the response has finished or closed it has
\* run.
C21_ReleasedExactlyOnce ==
    \A r \in Reqs :
        wd[r] # "none" =>
            /\ releases[r] <= 1
            /\ (res[r].finished \/ res[r].closed) => releases[r] = 1

\* C22: before MAX_ANSWER_MS has passed, a pass of either capture loop ends
\* the capture only if the text taken so far is not empty, the bubble read
\* shows no spinner, and the text did not change at this pass nor for
\* STABLE_MS before it; a text of at most 5 characters with no spinner is
\* the one exception to the wait.
C22_CompletionRule ==
    [][\A r \in Reqs :
          (pc[r] = "poll" /\ elapsed[r] < MAX_ANSWER_TICKS /\ pc'[r] \in {"final", "done"})
              => LET st == getBubbleState(baseline[r])
                 IN  /\ last'[r] # <<>>
                     /\ ~st.spinning
                     /\ \/ last'[r] = last[r] /\ sinceChange[r] >= STABLE_TICKS
                        \/ Len(last'[r]) <= SHORT_LEN]_vars

\* C23: completion is declared no earlier than STABLE_MS after the last
\* change of the text of the segment, when that text is not empty and
\* whatever the change (extension, shrink, divergence).  Hence the pass that ends a capture before
\* MAX_ANSWER_MS reads the very text the capture holds in last: a pass that
\* reads another text has seen a change less than one poll interval old.
\* The short-reply return of waitForFinalAnswer is left aside.
C23_NoCompletionOnChangedText ==
    [][\A r \in Reqs :
          (/\ pc[r] = "poll" /\ elapsed[r] < MAX_ANSWER_TICKS /\ pc'[r] \in {"final", "done"}
           /\ getBubbleState(baseline[r]).text # <<>>)
              => LET text == getBubbleState(baseline[r]).text
                 IN  \/ stream[r] /\ CleanStream(text) = last[r]
                     \/ ~stream[r] /\ CleanFinal(text) = last[r]
                     \/ ~stream[r] /\ Len(last'[r]) <= SHORT_LEN]_vars

\* C24: in both capture forms a pass of the loop that reads a text of at
\* most 5 characters (not a placeholder) with no spinner ends the capture
\* at that very pass, without waiting STABLE_MS, also when the same text
\* was first read while the spinner was on.
C24_ShortReplyCompletesAtOnce ==
    [][\A r \in Reqs :
          (pc[r] = "poll" /\ elapsed[r] < MAX_ANSWER_TICKS /\ pc'[r] \notin {"poll", "stuck"})
              => LET st    == getBubbleState(baseline[r])
                     clean == IF stream[r] THEN CleanStream(st.text) ELSE CleanFinal(st.text)
                 IN  (/\ clean # <<>> /\ ~isPlaceholderText(clean)
                      /\ Len(st.text) <= SHORT_LEN /\ ~st.spinning)
                         => pc'[r] \in {"final", "done"}]_vars

\* C25: what a successful response carries (the deltas written so far, or
\* the aggregate content) never contains a placeholder phrase and is never
\* made of dots, ellipses and blanks alone: every read of the capture takes
\* such a text for empty.
C25_NoPlaceholderSent ==
    \A r \in Reqs :
        (res[r].status = 200 /\ res[r].content # <<>>)
            => ~isPlaceholderTextOf(res[r].content)

\* C26: when the loop of a capture has ended, by stability or by timeout,
\* the page is read once more, and a text (not a placeholder) that extends
\* what the capture holds is sent whole: the streaming form writes the
\* remainder, the aggregate form returns the longer text.
C26_FinalReadIncluded ==
    [][\A r \in Reqs :
          (/\ pc[r] = "final" \/ (pc[r] = "poll" /\ elapsed[r] >= MAX_ANSWER_TICKS)
           /\ pc'[r] = "done")
              => LET text  == getBubbleState(baseline[r]).text
                     clean == IF stream[r] THEN CleanStream(text) ELSE CleanFinal(text)
                 IN  (/\ IsPrefix(last[r], clean) /\ Len(clean) > Len(last[r])
                      /\ ~isPlaceholderText(clean))
                        => res'[r].content =
                              IF stream[r]
                              THEN res[r].content \o SliceFrom(clean, Len(last[r]))
                              ELSE clean]_vars

\* C27: on the same baseline and the same trace of the page, the text
\* waitForFinalAnswer returns is the concatenation of the deltas
\* readAnswerInChunks yields, and both forms end at the same poll.
C27_FormsAgree ==
    \A s \in Reqs, a \in Reqs :
        (/\ stream[s] /\ pc[s] = "done"
         /\ ~stream[a] /\ pc[a] = "done" /\ res[a].status = 200)
            => /\ res[a].content = full[s]
               /\ elapsed[a] = elapsed[s]

\* the steps of setInputFast among the operations of request r
InputLog(r) == SelectSeq(ops[r], LAMBDA o : o \notin {OpIdle, OpCount, OpEnter, OpClick})
\* the commit actions among them
CommitLog(r) == SelectSeq(ops[r], LAMBDA o : o \in CommitOps)
HasOp(r, op) == \E i \in 1..Len(ops[r]) : ops[r][i] = op

\* C28 as stated: when no strategy of setInputFast was verified (so that
\* setInputFast came to its closing look at the send button), no commit
\* action is performed in that turn.
C28_UnverifiedNeverCommits ==
    \A r \in Reqs : HasOp(r, OpD) => CommitLog(r) = <<>>

\* C28, amended: when setInputFast returns false (no strategy verified and
\* the send button not ready at the closing look), submitPrompt throws
\* paste_failed, the request is answered 502 and the handler is over, with
\* no commit action before or after.
C28_PasteFailedBeforeCommit ==
    \A r \in Reqs :
        /\ HasOp(r, OpPasteFailed) =>
              /\ ops[r] = <<OpIdle, OpCount, OpClear, "A", OpClear, "B", OpClear, "C",
                            OpD, OpPasteFailed>>
              /\ pc[r] = "done" /\ res[r].status = 502 /\ res[r].ended
        /\ (HasOp(r, OpD) /\ ~HasOp(r, OpReady)) => HasOp(r, OpPasteFailed)

\* a request answered 502 after paste_failed, the input left empty
C28_PasteFailed ==
    \E r \in Reqs :
        /\ HasOp(r, OpPasteFailed) /\ pc[r] = "done"
        /\ res[r].status = 502 /\ input = {} /\ pending = {}

\* the complete runs of setInputFast: the strategies in the order A, B, C,
\* each after a clearing of the input, the run ending at the first
\* strategy whose okAfter() held, or after C with the closing look at the
\* send button
InputRuns ==
    {<<OpClear, "A", OpOk>>,
     <<OpClear, "A", OpClear, "B", OpOk>>,
     <<OpClear, "A", OpClear, "B", OpClear, "C", OpOk>>,
     <<OpClear, "A", OpClear, "B", OpClear, "C", OpD, OpReady>>,
     <<OpClear, "A", OpClear, "B", OpClear, "C", OpD, OpPasteFailed>>}

\* C29: setInputFast attempts A, B, C in this order, each after the one
\* before failed its verification and after clearing the input; it returns
\* true at the first strategy that is verified and attempts none after it;
\* it returns false only when all three failed and the send button is not
\* ready.
C29_StrategiesInOrder ==
    \A r \in Reqs :
        /\ \E run \in InputRuns : IsPrefix(InputLog(r), run)
        /\ (pc[r] \in {"settle", "click", "started", "started2", "poll", "sleep", "final"})
              => /\ InputLog(r) \in InputRuns
                 /\ InputLog(r)[Len(InputLog(r))] \in {OpOk, OpReady}
        /\ HasOp(r, OpPasteFailed) => InputLog(r) \in InputRuns

\* setInputFast returned true at strategy B, after A had failed
C29_AcceptedAtB ==
    \E r \in Reqs :
        /\ pc[r] = "settle"
        /\ InputLog(r) = <<OpClear, "A", OpClear, "B", OpOk>>
        /\ input = {r}

\* C30: within submitPrompt the reply bubbles are counted exactly once,
\* after the idle wait and before any injection or commit; the value
\* counted is the one returned and the one the capture reads with, and it
\* is never changed after the count.
C30_BaselineReadOnce ==
    /\ [](\A r \in Reqs :
             /\ Len(ops[r]) >= 1 => ops[r][1] = OpIdle
             /\ Len(ops[r]) >= 2 => ops[r][2] = OpCount
             /\ \A i \in 1..Len(ops[r]) : ops[r][i] \in {OpIdle, OpCount} => i <= 2)
    /\ [][\A r \in Reqs :
             /\ baseline'[r] # baseline[r] => pc[r] = "count"
             /\ (pc[r] = "count" /\ pc'[r] # "count") => HasOp(r, OpIdle) /\ ~HasOp(r, OpCount)
             /\ (pc'[r] = "poll" /\ pc[r] \in {"started", "started2"})
                   => HasOp(r, OpCount) /\ baseline'[r] = baseline[r]]_vars

\* a capture that reads with the baseline 1 counted before the commit,
\* while the page holds two reply bubbles
C30_CaptureWithOldCount ==
    \E r \in Reqs :
        /\ pc[r] = "poll" /\ baseline[r] = 1 /\ beforeCount = 2
        /\ HasOp(r, OpCount) /\ HasOp(r, OpEnter)

\* C31: submitPrompt waits for the page to be idle (no Stop button) for at
\* most the bound of 15 s: the wait never lasts longer, it always comes to an
\* end, and however it ends (the button gone, or the bound reached with the
\* button still there) the handler goes on to pickActiveInput, the count of
\* the reply bubbles and the injection; nothing is answered for the timeout.
InIdleWait(r) == pc[r] \in {"idle", "idle_sleep"}

CommitRuns ==
    { <<>>,
      <<OpEnter>>, <<OpEnter, OpClick>>,
      <<OpEnter, OpEnter>>, <<OpEnter, OpClick, OpClick>> }

SubmitThrew(r) ==
    /\ pc[r] = "done"
    /\ \/ HasOp(r, OpPasteFailed)
       \/ res[r].status = 502 /\ res[r].message = "submit_not_started"

InCapture(r) == pc[r] \in {"poll", "sleep", "final"}

C35_CaptureExitsBeforeWatchdog ==
    [][\A r \in Reqs :
         (pc[r] \in {"poll", "sleep", "final"} /\ pc'[r] = "done") => wd[r] # "fired"]_vars

\* C36: the close, finish and watchdog callbacks of a request release the
\* gate only for that request: none of them sets busy to false while a
\* request admitted later is in flight.
CallbackRuns(r) ==
    \/ res'[r].finished /\ ~res[r].finished
    \/ res'[r].closed /\ ~res[r].closed
    \/ wd'[r] = "fired" /\ wd[r] # "fired"

InFlight(q) == wd[q] # "none" /\ OnSurface(q) /\ ~res[q].ended /\ ~res[q].closed

C36_CallbacksReleaseOwnTurnOnly ==
    [][\A r \in Reqs, q \in Reqs :
         (q > r /\ CallbackRuns(r) /\ busy /\ ~busy') => ~InFlight(q)]_vars

\* C37: a request answered 429 changes nothing: the step that rejects it
\* leaves busy true and arms no watchdog, no release callback is registered
\* for it, and nothing that happens to its response afterwards (it finishes,
\* its connection closes) changes busy.
C37_RejectionChangesNothing ==
    /\ [](\A r \in Reqs :
            pc[r] = "rejected" =>
                /\ wd[r] = "none" /\ wdLeft[r] = 0 /\ releases[r] = 0
                /\ res[r].status = 429 /\ res[r].ended)
    /\ [][\A r \in Reqs :
            /\ (pc[r] = "new" /\ pc'[r] = "rejected") =>
                  /\ busy /\ busy'
                  /\ UNCHANGED <<wd, wdLeft, releases, reqVars, surfaceVars>>
                  /\ \A q \in Reqs \ {r} : pc'[q] = pc[q] /\ res'[q] = res[q]
            /\ (pc[r] = "rejected" /\ (res'[r] # res[r] \/ releases'[r] # releases[r]))
                  => busy' = busy]_vars

\* a request was answered 429 while the turn of another is on the page
C37_RejectedDuringTurn ==
    \E r \in Reqs, q \in Reqs :
        /\ pc[r] = "rejected" /\ res[r].ended
        /\ busy /\ wd[q] = "armed" /\ pc[q] \in {"poll", "sleep"}

\* C38: POST /reset can be answered in every state; it sets busy to false
\* and replaces the page, and it leaves every watchdog armed as it was and
\* every chat handler where it was; the next chat request that arrives is
\* admitted while the earlier turn goes on polling the new page.
C38_ResetFreesTheGateOnly ==
    /\ [](\A h \in Reqs : pc[h] = "reset" => ENABLED Reset(h))
    /\ [](\A r \in Reqs :
            (~busy /\ pc[r] = "new" /\ \A q \in Reqs : q < r => pc[q] # "new")
                => ENABLED Arrive(r))
    /\ [][\A h \in Reqs :
            (pc[h] = "reset" /\ pc'[h] = "absent") =>
                /\ ~busy'
                /\ segs' = <<>> /\ input' = {} /\ pending' = {}
                /\ UNCHANGED <<wd, wdLeft, releases, reqVars>>
                /\ \A r \in Reqs \ {h} : pc'[r] = pc[r] /\ res'[r] = res[r]]_vars
    /\ [][\A r \in Reqs :
            (pc[r] = "new" /\ pc'[r] # "new" /\ ~busy) =>
                pc'[r] \in {"ensure", "done"} /\ busy' /\ wd'[r] = "armed"]_vars

\* the second request was admitted and is on the page while the first one,
\* whose watchdog is still armed and whose response is open, is polling
C38_TwoTurnsAfterReset ==
    /\ wd[1] = "armed" /\ pc[1] \in {"poll", "sleep"}
    /\ ~res[1].ended /\ ~res[1].closed
    /\ wd[2] = "armed" /\ OnSurface(2)
    /\ busy

\* C39: every delta readAnswerInChunks yields is non-empty, and after each
\* yield the deltas yielded so far are together as long as the text the
\* generator holds: last inside the loop, the filtered text of the final read
\* after it; the length streamed only grows.
C39_StreamedLengthFollowsLast ==
    /\ [](\A r \in Reqs :
            (stream[r] /\ pc[r] \in {"poll", "sleep", "final"}) =>
                /\ Len(full[r]) = Len(last[r])
                /\ Len(res[r].content) = Len(full[r]))
    /\ [][\A r \in Reqs :
            (stream[r] /\ pc[r] \in {"poll", "sleep", "final"} /\ full'[r] # full[r]) =>
                /\ Len(full'[r]) > Len(full[r])
                /\ IsPrefix(full[r], full'[r])
                /\ IF pc'[r] = "done"
                   THEN Len(full'[r]) = Len(CleanStream(grabAnswerText(baseline[r])))
                   ELSE Len(full'[r]) = Len(last'[r])]_vars

\* two deltas were yielded, the second for a text that does not extend the
\* first: what was streamed is as long as last and is another text
C39_SecondDeltaOfAnotherText ==
    \E r \in Reqs :
        /\ stream[r] /\ pc[r] = "sleep"
        /\ Len(full[r]) = Len(last[r])
        /\ full[r] # last[r]

\* C40: a chat request whose messages give an empty prompt is admitted (busy
\* becomes true and its watchdog is armed) and answered 400 'empty prompt' in
\* the same step, without a call of ensureBrowser, submitPrompt or a capture:
\* the page stays as it was and the handler is over; when its response
\* finishes the gate is released and the watchdog cleared, and the next
\* request that arrives is admitted.
EmptyPrompt(r) == res[r].status = 400 /\ res[r].message = "empty prompt"

C40_EmptyPromptAdmittedAndReleased ==
    /\ [](\A r \in Reqs :
            EmptyPrompt(r) =>
                /\ pc[r] = "done" /\ res[r].ended /\ wd[r] # "none"
                /\ baseline[r] = 0 /\ last[r] = <<>> /\ full[r] = <<>> /\ ops[r] = <<>>
                /\ r \notin input /\ r \notin pending
                /\ \A i \in 1..Len(segs) : segs[i].turn # r)
    /\ [][\A r \in Reqs :
            /\ (~EmptyPrompt(r) /\ EmptyPrompt(r)') =>
                  /\ pc[r] = "new" /\ ~busy /\ busy' /\ wd'[r] = "armed"
                  /\ UNCHANGED surfaceVars
            /\ (EmptyPrompt(r) /\ ~res[r].finished /\ res'[r].finished) =>
                  ~busy' /\ wd'[r] # "armed"
            /\ \A q \in Reqs :
                  (EmptyPrompt(r) /\ res[r].finished /\ ~busy
                   /\ pc[q] = "new" /\ pc'[q] # "new") =>
                      /\ pc'[q] \in {"ensure", "done"}
                      /\ res'[q].status # 429 /\ busy']_vars

\* an empty prompt was answered 400, its response finished, and the request
\* that came next was admitted
C40_NextAdmittedAfterEmptyPrompt ==
    /\ EmptyPrompt(1) /\ res[1].finished /\ wd[1] = "cleared"
    /\ wd[2] = "armed" /\ busy /\ pc[2] = "ensure"

====
